---- MODULE Spec2Model ----
(***************************************************************************)
(* Searchive backend: the document ingestion pipeline (upload_document),   *)
(* the reverse pipeline (delete_document), the hybrid keyword extraction   *)
(* service, the tag catalogue (get-or-create and document-tag links) and   *)
(* the Kakao OAuth callback with its Redis-held sessions.                  *)
(*                                                                         *)
(* Each request is handled by a worker; a worker's steps are the awaits    *)
(* (I/O boundaries) of the handler it runs, so two requests interleave     *)
(* exactly where the asyncio event loop can switch between them.           *)
(***************************************************************************)
EXTENDS Integers, Sequences, FiniteSets, Bags, TLC

(***************************************************************************)
(* Bounds of the model.                                                    *)
(***************************************************************************)
\* Total number of requests the workers start in one behaviour.
MaxRequests == 2
\* Largest configured KEYWORD_EXTRACTION_THRESHOLD tried (0..MaxThreshold).
MaxThreshold == 1
\* settings.KEYWORD_EXTRACTION_COUNT: the number of keywords asked of an
\* extractor (top_n / size); config.py sets no default, so it is a bound here.
KeywordCount == 2
\* Total number of kakao_callback / test_login requests in one behaviour.
MaxAuthRequests == 3
MaxTerms == 3

(***************************************************************************)
(* Program constants.                                                      *)
(***************************************************************************)
\* documents/service.py:114  len(extracted_text.strip()) < 10
MinTextLength == 10

Workers == {"w1", "w2"}
Users == {1, 2}
\* The users who upload.
Uploaders == {1}

(***************************************************************************)
(* Strings are sequences of one-character strings, so that strip() and     *)
(* lower() are computed and not assumed.                                   *)
(***************************************************************************)
LowerChar(c) ==
    CASE c = "A" -> "a"
      [] c = "B" -> "b"
      [] OTHER -> c

\* str.lower()
Lower(s) == [i \in 1..Len(s) |-> LowerChar(s[i])]

RECURSIVE LStrip(_)
LStrip(s) ==
    IF s = <<>> THEN <<>>
    ELSE IF Head(s) = " " THEN LStrip(Tail(s)) ELSE s

RECURSIVE RStrip(_)
RStrip(s) ==
    IF s = <<>> THEN <<>>
    ELSE IF s[Len(s)] = " " THEN RStrip(SubSeq(s, 1, Len(s) - 1)) ELSE s

\* str.strip()
Strip(s) == RStrip(LStrip(s))

\* The normalisation without lower(): strip and de-duplicate only.
StripKeywords(kws) ==
    { Strip(k) : k \in { kws[i] : i \in { j \in 1..Len(kws) : Strip(kws[j]) # <<>> } } }

\* The tag-name normalisation without lower().
StripSet(S) == { Strip(k) : k \in { x \in S : Strip(x) # <<>> } }

\* The tag-name normalisation without its `if name.strip()` filter.
NormalizeKeepBlank(S) == { Lower(Strip(k)) : k \in S }

\* The tag-name normalisation without strip() on the names it keeps.
LowerSet(S) == { Lower(k) : k \in { x \in S : Strip(x) # <<>> } }

\* set(name.strip().lower() for name in names if name.strip()), over the
\* elements of a collection
NormalizeSet(S) == { Lower(Strip(k)) : k \in { x \in S : Strip(x) # <<>> } }

\* set(kw.strip().lower() for kw in keywords if kw.strip()), over a list
NormalizeKeywords(kws) == NormalizeSet({ kws[i] : i \in 1..Len(kws) })

\* The list is already what the normalisation would make of it: every
\* element non-empty, trimmed and lower-case, and none of them twice.
RawNormal(kws) ==
    \A i \in 1..Len(kws) :
        /\ kws[i] # <<>>
        /\ Strip(kws[i]) = kws[i]
        /\ Lower(kws[i]) = kws[i]
        /\ \A j \in 1..Len(kws) : kws[j] = kws[i] => j = i

\* Keyword strings an extractor may hand back (raw, before normalisation).
RawKeywords == { <<"a", "b">>, <<" ", "A", "b", " ">>, <<"c">>, <<" ">> }

\* Lists of at most n raw keywords.
RECURSIVE KeywordLists(_)
KeywordLists(n) ==
    IF n = 0 THEN { <<>> }
    ELSE KeywordLists(n - 1) \cup
         { Append(l, k) : l \in { x \in KeywordLists(n - 1) : Len(x) = n - 1 },
                          k \in RawKeywords }

\* n copies of character c
RECURSIVE Repeat(_, _)
Repeat(c, n) == IF n = 0 THEN <<>> ELSE <<c>> \o Repeat(c, n - 1)

\* An Optional[str]: None is <<>>, and the text t is <<t>>.
None == <<>>

\* The bytes of an uploaded file, one character per byte; "#" is a byte
\* that is valid in neither UTF-8 nor CP949.
FileBytes ==
    { <<>>,
      Repeat(" ", 3),
      <<" ">> \o Repeat("x", MinTextLength - 1) \o <<" ">>,
      Repeat("x", MinTextLength),
      <<" ">> \o Repeat("x", MinTextLength),
      <<" ", "#">> \o Repeat("x", MinTextLength) }

\* A file: its bytes, and whether they are a well-formed document of the
\* format its MIME type names.
FileData == { [bytes |-> b, wellFormed |-> f] : b \in FileBytes, f \in BOOLEAN }

\* len(extracted_text.strip()) of what the extractor returned; -1 for None
StrippedLen(t) == IF t = None THEN -1 ELSE Len(Strip(t[1]))

\* The length check left out: any non-empty text is taken as usable.
TextNonEmpty(t) == t # None /\ t[1] # <<>>

\* not (not extracted_text or len(extracted_text.strip()) < 10)
TextUsable(t) ==
    /\ t # None
    /\ t[1] # <<>>
    /\ Len(Strip(t[1])) >= MinTextLength

VARIABLES
    threshold,      \* HybridKeywordExtractionService.threshold
    kbModel,        \* KeyBERTExtractor.model: "None" or "KeyBERT"
    blobs,          \* MinIO bucket: the object keys stored
    documents,      \* table documents: rows [document_id, user_id, storage_path]
    nextDocId,      \* documents.document_id sequence
    tags,           \* table tags: rows [tag_id, name]
    nextTagId,      \* tags.tag_id sequence
    links,          \* table document_tags: rows <<document_id, tag_id>>
    esIndex,        \* Elasticsearch index "documents": ids of indexed documents
    started,        \* number of requests started so far
    req,            \* req[w]: the request worker w is handling
    sessions,       \* Redis "session:{sid}": sid -> the stored JSON text
    codeSession,    \* Redis "kakao_code:{code}": code -> session id
    codeLock,       \* Redis "kakao_code_lock:{code}": the codes whose key is set
    users,          \* table users: rows [user_id, kakao_id]
    nextUserId,     \* users.user_id sequence
    kakaoRedeemed,  \* authorization codes Kakao has already exchanged
    sessionsMade,   \* every session create_session has made: [sid, code, user_id,
                    \* ended], ended once the key was deleted or has expired
    authStarted,    \* number of auth requests started so far
    areq            \* areq[w]: the auth request worker w is handling

docVars == <<threshold, kbModel, blobs, documents, nextDocId, tags, nextTagId,
             links, esIndex, started, req>>
authVars == <<sessions, codeSession, codeLock, users, nextUserId, kakaoRedeemed,
              sessionsMade, authStarted, areq>>
vars == <<docVars, authVars>>

(***************************************************************************)
(* Document domain.                                                        *)
(***************************************************************************)
\* documents/service.py: ALLOWED_MIME_TYPES
ALLOWED_MIME_TYPES ==
    { "application/pdf",
      "text/plain",
      "application/vnd.openxmlformats-officedocument.spreadsheetml.sheet",
      "application/vnd.ms-excel",
      "application/msword",
      "application/vnd.openxmlformats-officedocument.wordprocessingml.document",
      "application/vnd.ms-powerpoint",
      "application/vnd.openxmlformats-officedocument.presentationml.presentation" }

\* Declared content types a client sends in the model.
\* The three MIME types of HWP files that extract_text_from_bytes knows.
HWP_MIME_TYPES ==
    { "application/x-hwp", "application/haansofthwp", "application/vnd.hancom.hwp" }

\* The file types extract_text_from_bytes is called with.
FileTypes == ALLOWED_MIME_TYPES \cup HWP_MIME_TYPES \cup { "image/png" }

\* How a call ends: it returns `text` (an Optional[str]) or raises `raised`.
Returned(t) == [raised |-> "none", text |-> <<t>>]
ReturnedNone == [raised |-> "none", text |-> None]
Raised(exc) == [raised |-> exc, text |-> None]

\* A try block with no except clause: the exception leaves the function.
ExceptNothing(outcome) == outcome

\* except Exception as e: logger.error(...); return None
ExceptException(outcome) ==
    IF outcome.raised # "none" THEN ReturnedNone ELSE outcome

\* bytes.decode('utf-8') raises UnicodeDecodeError on an invalid byte
Utf8Valid(bytes) == \A i \in 1..Len(bytes) : bytes[i] # "#"

\* bytes.decode('cp949', errors='ignore') drops the bytes it cannot decode
IsDecodable(c) == c # "#"
DecodeCp949Ignore(bytes) == SelectSeq(bytes, IsDecodable)

\* _extract_from_txt
ExtractFromTxt(data) ==
    ExceptException(
        IF Utf8Valid(data.bytes) THEN Returned(data.bytes)
        ELSE Returned(DecodeCp949Ignore(data.bytes)))

\* _extract_from_pdf, _docx, _excel, _pptx, _hwp: import the library, parse
\* the bytes, join the text parts; ImportError and every other exception
\* are caught inside the routine
ExtractWithLibrary(data, installed) ==
    ExceptException(
        IF ~installed THEN Raised("ImportError")
        ELSE IF ~data.wellFormed \/ ~Utf8Valid(data.bytes) THEN Raised("Exception")
        ELSE Returned(data.bytes))

\* extract_text_from_bytes: dispatch on the MIME type inside try/except
ExtractTextFromBytes(data, file_type, installed) ==
    ExceptException(
        IF file_type = "application/pdf" THEN ExtractWithLibrary(data, installed)
        ELSE IF file_type = "text/plain" THEN ExtractFromTxt(data)
        ELSE IF file_type \in
                { "application/vnd.openxmlformats-officedocument.wordprocessingml.document",
                  "application/msword" }
             THEN ExtractWithLibrary(data, installed)
        ELSE IF file_type \in
                { "application/vnd.openxmlformats-officedocument.spreadsheetml.sheet",
                  "application/vnd.ms-excel" }
             THEN ExtractWithLibrary(data, installed)
        ELSE IF file_type \in
                { "application/vnd.openxmlformats-officedocument.presentationml.presentation",
                  "application/vnd.ms-powerpoint" }
             THEN ExtractWithLibrary(data, installed)
        ELSE IF file_type \in HWP_MIME_TYPES THEN ExtractWithLibrary(data, installed)
        ELSE ReturnedNone)

\* What extract_text_from_bytes hands upload_document, whose files have an
\* allowed MIME type.
ExtractedTexts ==
    { ExtractTextFromBytes(d, ft, lib).text :
        d \in FileData, ft \in ALLOWED_MIME_TYPES, lib \in BOOLEAN }

MimeTypes == { "text/plain", "image/png" }

\* Tag names handed to TagService.get_or_create_tag directly.
TagNames == { <<"a", "b">>, <<"c">> }

\* A worker with no request.
Idle ==
    [ op |-> "none", pc |-> "idle", user |-> 0, key |-> 0, doc |-> 0,
      count |-> 0, ran |-> "none", method |-> "none", kws |-> {},
      found |-> {}, status |-> 0, outTags |-> {}, outDocs |-> {},
      raised |-> "none",
      rowPersisted |-> FALSE, indexFailed |-> FALSE, countFailed |-> FALSE,
      esFailed |-> FALSE, kbUnavailable |-> FALSE, ek |-> "no",
      linked |-> FALSE, blobDeleteFailed |-> FALSE, blobDeleted |-> FALSE,
      rowDeleteTried |-> FALSE,
      mime |-> "none",          \* file.content_type
      steps |-> <<>>,           \* the pipeline steps performed, in order
      blobPutFailed |-> FALSE,  \* minio_client.upload_file raised
      textRead |-> FALSE,       \* extract_text_from_bytes has returned
      textLen |-> 0,            \* len(extracted_text.strip()), -1 for None
      rawClean |-> TRUE,        \* the extractor's own list was already normal
      emptyKw |-> FALSE,        \* extract_keywords returned no keyword
      created |-> FALSE,        \* this request inserted a row into tags
      names |-> {},             \* the names a tag-service call was given
      seq |-> 0,                \* the ordinal of a tag-service call
      solo |-> FALSE,           \* no other call was under way when it began
      wellFormed |-> TRUE,      \* the file parses as its format
      installed |-> TRUE,       \* the format's library can be imported
      bytes |-> <<>>,           \* file_data
      out |-> <<>>,             \* the Optional[str] a call returned
      terms |-> <<>>,           \* the term vector of the document
      total |-> 0,              \* field_statistics.doc_count
      size |-> 0,               \* the `size` argument
      keywords |-> <<>> ]       \* the list extract_significant_terms returned

\* The handler returns normally with HTTP status `code`.
Finish(r, code) ==
    [r EXCEPT !.pc = "done", !.status = code, !.kws = {}, !.found = {},
              !.rawClean = TRUE, !.countFailed = FALSE, !.esFailed = FALSE]

\* The handler raises: `exc` is the exception, `code` the HTTP status that
\* reaches the client.
Raise(r, exc, code) ==
    [r EXCEPT !.pc = "done", !.status = code, !.raised = exc,
              !.kws = {}, !.found = {}, !.rawClean = TRUE,
              !.countFailed = FALSE, !.esFailed = FALSE]

\* Worker w has no request in hand: it never had one, or it has answered.
Free(w) == req[w].pc \in {"idle", "done"}

DocRow(d) == CHOOSE row \in documents : row.document_id = d
DocExists(d) == \E row \in documents : row.document_id = d

----------------------------------------------------------------------------
\* The steps of upload_document that touch a store or a service, in the
\* order of the code (steps 4 to 9).
UploadSteps ==
    << "put_blob", "create_row", "extract_text", "index", "extract_keywords",
       "attach_tags" >>

\* Every content type passes the validation.
AnyMimeAllowed(mime) == TRUE

\* not (file.content_type not in ALLOWED_MIME_TYPES)
MimeAllowed(mime) == mime \in ALLOWED_MIME_TYPES

(* upload_document, step 1-3: MIME validation, storage path, file.read()   *)
UploadStart(w) ==
    /\ Free(w)
    /\ started < MaxRequests
    /\ \E u \in Uploaders, mime \in MimeTypes :
         /\ started' = started + 1
         /\ IF ~MimeAllowed(mime)
            THEN req' = [req EXCEPT ![w] =
                    Raise([Idle EXCEPT !.op = "upload", !.user = u,
                                       !.mime = mime],
                          "HTTPException", 400)]
            ELSE req' = [req EXCEPT ![w] =
                    [Idle EXCEPT !.op = "upload", !.pc = "put_blob",
                                 !.user = u, !.mime = mime,
                                 !.key = started + 1]]
    /\ UNCHANGED <<threshold, kbModel, blobs, documents, nextDocId, tags,
                   nextTagId, links, esIndex, authVars>>

(* upload_file with its S3Error swallowed: the pipeline goes on             *)
MinioUploadFileSwallowed(w) ==
    /\ req[w].op = "upload" /\ req[w].pc = "put_blob"
    /\ \E ok \in BOOLEAN :
         /\ blobs' = IF ok THEN blobs \cup {req[w].key} ELSE blobs
         /\ req' = [req EXCEPT ![w].pc = "create_row",
                               ![w].steps = Append(@, "put_blob"),
                               ![w].blobPutFailed = ~ok]
    /\ UNCHANGED <<threshold, kbModel, documents, nextDocId, tags, nextTagId,
                   links, esIndex, started, authVars>>

(* step 4: minio_client.upload_file; S3Error is re-raised and becomes 500  *)
MinioUploadFile(w) ==
    /\ req[w].op = "upload" /\ req[w].pc = "put_blob"
    /\ \E ok \in BOOLEAN :
         LET r == [req[w] EXCEPT !.steps = Append(@, "put_blob")]
         IN  IF ok
             THEN /\ blobs' = blobs \cup {req[w].key}
                  /\ req' = [req EXCEPT ![w] = [r EXCEPT !.pc = "create_row"]]
             ELSE /\ blobs' = blobs
                  /\ req' = [req EXCEPT ![w] =
                        Raise([r EXCEPT !.blobPutFailed = TRUE], "S3Error", 500)]
    /\ UNCHANGED <<threshold, kbModel, documents, nextDocId, tags, nextTagId,
                   links, esIndex, started, authVars>>

(* step 5: document_repository.create                                      *)
DocumentRepositoryCreate(w) ==
    /\ req[w].op = "upload" /\ req[w].pc = "create_row"
    /\ \E ok \in BOOLEAN :
         IF ok
         THEN /\ documents' = documents \cup
                    { [document_id |-> nextDocId, user_id |-> req[w].user,
                       storage_path |-> req[w].key] }
              /\ nextDocId' = nextDocId + 1
              /\ req' = [req EXCEPT ![w].pc = "extract_text",
                                    ![w].steps = Append(@, "create_row"),
                                    ![w].doc = nextDocId,
                                    ![w].rowPersisted = TRUE]
         ELSE /\ UNCHANGED <<documents, nextDocId>>
              /\ req' = [req EXCEPT ![w] =
                    Raise([req[w] EXCEPT !.steps = Append(@, "create_row")],
                          "SQLAlchemyError", 500)]
    /\ UNCHANGED <<threshold, kbModel, blobs, tags, nextTagId, links, esIndex,
                   started, authVars>>

\* For each text the extractor may return: whether upload_document goes on
\* with it, and its stripped length.
ExtractTextResults == { <<TextUsable(t), StrippedLen(t)>> : t \in ExtractedTexts }

(* step 6: text_extractor.extract_text_from_bytes and the length check     *)
ExtractText(w) ==
    /\ req[w].op = "upload" /\ req[w].pc = "extract_text"
    /\ \E o \in ExtractTextResults :
         LET r == [req[w] EXCEPT !.steps = Append(@, "extract_text"),
                                 !.textRead = TRUE, !.textLen = o[2]]
         IN  IF o[1]
             THEN req' = [req EXCEPT ![w] = [r EXCEPT !.pc = "index"]]
             ELSE req' = [req EXCEPT ![w] = Finish(r, 200)]
    /\ UNCHANGED <<threshold, kbModel, blobs, documents, nextDocId, tags,
                   nextTagId, links, esIndex, started, authVars>>

(* TextExtractor.extract_text_from_bytes(file_data, file_type, filename),  *)
(* called on its own                                                       *)
ExtractTextFromBytesCall(w) ==
    /\ req[w].op = "extract_text" /\ req[w].pc = "call"
    /\ LET file_data == [bytes |-> req[w].bytes, wellFormed |-> req[w].wellFormed]
           outcome == ExtractTextFromBytes(file_data, req[w].mime, req[w].installed)
       IN  req' = [req EXCEPT ![w].pc = "done", ![w].raised = outcome.raised,
                              ![w].out = outcome.text]
    /\ UNCHANGED <<threshold, kbModel, blobs, documents, nextDocId, tags,
                   nextTagId, links, esIndex, started, authVars>>

(* index_document started and not awaited: the pipeline goes on before the *)
(* document is in the index                                                *)
IndexDocumentNotAwaited(w) ==
    /\ req[w].op = "upload" /\ req[w].pc = "index"
    /\ esIndex' = esIndex
    /\ req' = [req EXCEPT ![w].pc = "count", ![w].steps = Append(@, "index")]
    /\ UNCHANGED <<threshold, kbModel, blobs, documents, nextDocId, tags,
                   nextTagId, links, started, authVars>>

(* step 7: elasticsearch_client.index_document; it catches every exception *)
(* and returns False, and upload_document does not look at the result      *)
IndexDocument(w) ==
    /\ req[w].op = "upload" /\ req[w].pc = "index"
    /\ \E ok \in BOOLEAN :
         IF ok
         THEN /\ esIndex' = esIndex \cup {req[w].doc}
              /\ req' = [req EXCEPT ![w].pc = "count",
                                    ![w].steps = Append(@, "index")]
         ELSE /\ esIndex' = esIndex
              /\ req' = [req EXCEPT ![w].pc = "count",
                                    ![w].steps = Append(@, "index"),
                                    ![w].indexFailed = TRUE]
    /\ UNCHANGED <<threshold, kbModel, blobs, documents, nextDocId, tags,
                   nextTagId, links, started, authVars>>

----------------------------------------------------------------------------
(* Hybrid keyword extraction (core/keyword_extraction.py)                  *)

\* The comparison off by one: the threshold itself still counts as cold start.
SelectKeyBERTInclusive(count, t) == count <= t

\* if document_count < self.threshold: KeyBERT, else: Elasticsearch
SelectKeyBERT(count, t) == count < t

\* if 2 <= len(term) <= 30
TermLengthOk(term) == 2 <= Len(term) /\ Len(term) <= 30

\* 1 000 000 * ln(n), rounded, for the small n that occur
LnMicro(n) ==
    CASE n = 1 -> 0       [] n = 2 -> 693147  [] n = 3 -> 1098612
      [] n = 4 -> 1386294 [] n = 5 -> 1609438 [] n = 6 -> 1791759
      [] n = 7 -> 1945910 [] n = 8 -> 2079442

\* tfidf = tf * (math.log((total_docs + 1) / (df + 1)) + 1), in millionths
Score(info, total_docs) ==
    info.tf * (LnMicro(total_docs + 1) - LnMicro(info.df + 1) + 1000000)

\* term_scores: one (term, tfidf) pair for each term of the right length,
\* in the order of terms.items()
TermScores(terms, total_docs) ==
    LET scored == [i \in 1..Len(terms) |->
                      [term |-> terms[i].term, score |-> Score(terms[i], total_docs)]]
        LengthOk(x) == TermLengthOk(x.term)
    IN  SelectSeq(scored, LengthOk)

\* The pairs left as the loop appended them.
Unsorted(pairs) == pairs

\* term_scores.sort(key=lambda x: x[1], reverse=True): a stable sort, so
\* pairs of equal score keep the order they had
RECURSIVE SortByScore(_)
SortByScore(pairs) ==
    IF Len(pairs) = 0 THEN <<>>
    ELSE LET n == Len(pairs)
             x == pairs[n]
             front == SortByScore(SubSeq(pairs, 1, n - 1))
             ahead == { i \in 1..Len(front) : front[i].score >= x.score }
             k == Cardinality(ahead)
         IN  SubSeq(front, 1, k) \o <<x>> \o SubSeq(front, k + 1, Len(front))

\* extract_significant_terms once both Elasticsearch calls have answered:
\* [term for term, score in term_scores[:size]]
SignificantTerms(terms, total_docs, size) ==
    LET sorted == SortByScore(TermScores(terms, total_docs))
        n == IF Len(sorted) < size THEN Len(sorted) ELSE size
    IN  [i \in 1..n |-> sorted[i].term]

\* term_freq values of a term vector.
TermFrequencies == {1, 2}

\* field_statistics.doc_count values.
FieldDocCounts == {1, 3}

\* doc_freq of a term in an index of total_docs documents: the term is in
\* this document only, or in every document.
DocFrequencies(total_docs) == {1, total_docs}

\* What a term vector may say of one term of `pool`.
TermInfos(pool, total_docs) ==
    { [term |-> t, tf |-> f, df |-> d] :
        t \in pool, f \in TermFrequencies, d \in DocFrequencies(total_docs) }

\* A dict holds each key once.
DistinctTerms(v) == \A i, j \in 1..Len(v) : v[i].term = v[j].term => i = j

\* The term vectors of at most n terms over `pool`: the terms of
\* tv_response["term_vectors"]["content"]["terms"], a dict, in its order.
TermVectors(pool, n, total_docs) ==
    UNION { { v \in [1..k -> TermInfos(pool, total_docs)] : DistinctTerms(v) } :
            k \in 0..n }

\* The arguments and index state of an extract_significant_terms call.
TermInputs(pool, n, sizes) ==
    UNION { { [terms |-> v, total |-> total_docs, size |-> size] :
                v \in TermVectors(pool, n, total_docs),
                size \in sizes } :
            total_docs \in FieldDocCounts }

\* The empty-list return with the method reported as "none".
AfterKeywordsMethodNone(r, keywords, method) ==
    LET r1 == [r EXCEPT !.kws = keywords, !.method = method, !.ek = "returned",
                        !.emptyKw = (keywords = {})]
    IN  IF keywords = {} THEN Finish([r1 EXCEPT !.method = "none"], 200)
        ELSE [r1 EXCEPT !.pc = "find_tags"]

\* upload_document left waiting, once the keyword list is empty, for a
\* result that is never delivered.
AfterKeywordsNeverResumed(r, keywords, method) ==
    LET r1 == [r EXCEPT !.kws = keywords, !.method = method, !.ek = "returned",
                        !.emptyKw = (keywords = {})]
    IN  IF keywords = {} THEN [r1 EXCEPT !.pc = "waiting"]
        ELSE [r1 EXCEPT !.pc = "find_tags"]

\* upload_document step 8-9 once extract_keywords has returned
\* (keywords, extraction_method): `if not keywords: return document, [], method`
AfterKeywords(r, keywords, method) ==
    LET r1 == [r EXCEPT !.kws = keywords, !.method = method, !.ek = "returned",
                        !.emptyKw = (keywords = {})]
    IN  IF keywords = {} THEN Finish(r1, 200)
        ELSE [r1 EXCEPT !.pc = "find_tags"]

\* The terms of the documents extract_significant_terms is called on: one
\* character, two, thirty and thirty-one characters long.
TermPool ==
    { <<"c">>, <<"a", "b">>, <<"d", "e">>, Repeat("y", 30), Repeat("z", 31) }

(* elasticsearch_client.extract_significant_terms(document_id, size)       *)
ExtractSignificantTerms(w) ==
    /\ req[w].op = "significant_terms" /\ req[w].pc = "call"
    /\ \/ \* client.get or client.termvectors raises, or the answer has no
          \* term vectors: return []
          req' = [req EXCEPT ![w].pc = "done", ![w].esFailed = TRUE,
                             ![w].keywords = <<>>]
       \/ req' = [req EXCEPT ![w].pc = "done",
                             ![w].keywords =
                                SignificantTerms(req[w].terms, req[w].total,
                                                 req[w].size)]
    /\ UNCHANGED <<threshold, kbModel, blobs, documents, nextDocId, tags,
                   nextTagId, links, esIndex, started, authVars>>

\* What the normalisation on line 175 makes of each list KeyBERT may hand
\* back, with whether that list was normal already.
KeyBERTResults ==
    { <<NormalizeKeywords(out), RawNormal(out)>> :
         out \in KeywordLists(KeywordCount) }

\* The same for the lists extract_significant_terms may hand back.
ElasticsearchResults ==
    { << NormalizeKeywords(SignificantTerms(x.terms, x.total, x.size)),
         RawNormal(SignificantTerms(x.terms, x.total, x.size)) >> :
         x \in TermInputs(RawKeywords, KeywordCount, {KeywordCount}) }

\* The count of an earlier call kept and handed to the later ones.
DocumentCountCached(w) ==
    IF \E v \in Workers : v # w /\ req[v].ran # "none"
    THEN req[CHOOSE v \in Workers : v # w /\ req[v].ran # "none"].count
    ELSE Cardinality(esIndex)

\* get_document_count: client.count(index=...)["count"], asked of the index
\* by the call that needs it
DocumentCount(w) == Cardinality(esIndex)

(* extract_keywords step 1: elasticsearch_client.get_document_count, which *)
(* returns 0 when the count query fails                                    *)
GetDocumentCount(w) ==
    /\ req[w].op = "upload" /\ req[w].pc = "count"
    /\ \E ok \in BOOLEAN :
         IF ok
         THEN req' = [req EXCEPT ![w].pc = "extract",
                                 ![w].steps = Append(@, "extract_keywords"),
                                 ![w].count = DocumentCount(w)]
         ELSE req' = [req EXCEPT ![w].pc = "extract", ![w].count = 0,
                                 ![w].steps = Append(@, "extract_keywords"),
                                 ![w].countFailed = TRUE, ![w].esFailed = TRUE]
    /\ UNCHANGED <<threshold, kbModel, blobs, documents, nextDocId, tags,
                   nextTagId, links, esIndex, started, authVars>>

(* extract_keywords step 2, cold start: KeyBERTExtractor.extract_keywords. *)
(* _load_model runs outside the try block, so its ImportError propagates   *)
(* through extract_keywords into upload_document's `except Exception`.     *)
KeyBERTExtract(w) ==
    /\ req[w].op = "upload" /\ req[w].pc = "extract"
    /\ SelectKeyBERT(req[w].count, threshold)
    /\ LET r == [req[w] EXCEPT !.ran = "keybert"]
       IN  \/ \* _load_model raises: keybert is not installed
              /\ kbModel = "None"
              /\ kbModel' = kbModel
              /\ req' = [req EXCEPT ![w] =
                    Raise([r EXCEPT !.kbUnavailable = TRUE, !.ek = "raised"],
                          "ImportError", 500)]
           \/ \* self.model.extract_keywords raises: caught, return []
              /\ kbModel' = "KeyBERT"
              /\ req' = [req EXCEPT ![w] =
                    AfterKeywords(r, NormalizeKeywords(<<>>), "keybert")]
           \/ \* the model returns up to top_n keywords
              /\ kbModel' = "KeyBERT"
              /\ \E o \in KeyBERTResults :
                   req' = [req EXCEPT ![w] =
                      AfterKeywords([r EXCEPT !.rawClean = o[2]], o[1], "keybert")]
    /\ UNCHANGED <<threshold, blobs, documents, nextDocId, tags, nextTagId,
                   links, esIndex, started, authVars>>

(* extract_keywords step 2, normal: ElasticsearchExtractor.extract_keywords *)
(* -> extract_significant_terms, which turns every exception into []       *)
ElasticsearchExtract(w) ==
    /\ req[w].op = "upload" /\ req[w].pc = "extract"
    /\ ~SelectKeyBERT(req[w].count, threshold)
    /\ LET r == [req[w] EXCEPT !.ran = "elasticsearch"]
       IN  \/ \* client.get or client.termvectors raises (the document is
              \* not in the index, or the call fails): caught, return []
              /\ req' = [req EXCEPT ![w] =
                    AfterKeywords([r EXCEPT !.esFailed = TRUE],
                                  NormalizeKeywords(<<>>), "elasticsearch")]
           \/ \* both calls answer: the term vectors of the indexed document
              /\ req[w].doc \in esIndex
              /\ \E o \in ElasticsearchResults :
                   req' = [req EXCEPT ![w] =
                      AfterKeywords([r EXCEPT !.rawClean = o[2]], o[1],
                                    "elasticsearch")]
    /\ UNCHANGED <<threshold, kbModel, blobs, documents, nextDocId, tags,
                   nextTagId, links, esIndex, started, authVars>>

----------------------------------------------------------------------------
(* Tag catalogue (domains/tags)                                            *)

\* The tags table without its unique index on name.
NoUniqueNameIndex(rows, names) == FALSE

\* ix_tags_name, unique: would inserting rows named `names` break it?
UniqueNameViolation(rows, names) ==
    \E n \in names : \E t \in rows : t.name = n

\* document_tags with its two foreign keys and no primary key.
LinkViolationForeignKeysOnly(d, tagIds) ==
    \/ ~DocExists(d)
    \/ \E i \in tagIds : ~\E t \in tags : t.tag_id = i

\* document_tags: primary key (document_id, tag_id) and both foreign keys
LinkViolation(d, tagIds) ==
    \/ ~DocExists(d)
    \/ \E i \in tagIds : BagIn(<<d, i>>, links)
    \/ \E i \in tagIds : ~\E t \in tags : t.tag_id = i

\* The lookup result ignored: every name is taken as new.
AllNamesNew(names, existing) == names

\* new_tag_names = [name for name in names if name not in existing_tag_names]
NewTagNames(names, existing) == names \ { t.name : t \in existing }

\* The foreign key without ON DELETE CASCADE taking the links along.
LinksKept(d) == links

\* ON DELETE CASCADE from documents to document_tags
CascadeDocument(d) ==
    LET keep == { p \in DOMAIN links : p[1] # d }
    IN  [p \in keep |-> links[p]]

(* attach_tags_to_document -> get_or_create_tags -> bulk_get_or_create,    *)
(* up to find_all_by_names                                                 *)
FindAllByNames(w) ==
    /\ req[w].op \in {"upload", "tags", "attach"} /\ req[w].pc = "find_tags"
    /\ LET unique_names == NormalizeSet(req[w].kws)
           existing == { t \in tags : t.name \in unique_names }
       IN  req' = [req EXCEPT ![w].kws = unique_names,
                              ![w].found = existing,
                              ![w].rawClean = TRUE,
                              ![w].steps = IF req[w].op = "upload"
                                           THEN Append(@, "attach_tags") ELSE @,
                              ![w].pc = IF NewTagNames(unique_names, existing) = {}
                                        THEN "got_tags" ELSE "create_tags"]
    /\ UNCHANGED <<threshold, kbModel, blobs, documents, nextDocId, tags,
                   nextTagId, links, esIndex, started, authVars>>

(* bulk_create with a commit after every INSERT: the names before the      *)
(* duplicate stay in the table when the duplicate raises                   *)
TagBulkCreateRowByRow(w) ==
    /\ req[w].op \in {"upload", "tags", "attach"} /\ req[w].pc = "create_tags"
    /\ LET new == NewTagNames(req[w].kws, req[w].found)
           ok == { x \in new : ~UniqueNameViolation(tags, {x}) }
           n == Cardinality(ok)
       IN  \E id \in [ok -> nextTagId..(nextTagId + n - 1)] :
              /\ \A x, y \in ok : x # y => id[x] # id[y]
              /\ LET rows == { [tag_id |-> id[x], name |-> x] : x \in ok }
                 IN  /\ tags' = tags \cup rows
                     /\ nextTagId' = nextTagId + n
                     /\ IF ok # new
                        THEN req' = [req EXCEPT ![w] = Raise(req[w], "IntegrityError", 500)]
                        ELSE req' = [req EXCEPT ![w].found = @ \cup rows,
                                                ![w].created = TRUE,
                                                ![w].pc = "got_tags"]
    /\ UNCHANGED <<threshold, kbModel, blobs, documents, nextDocId, links,
                   esIndex, started, authVars>>

(* TagRepository.bulk_create: one INSERT per new name, one commit; a       *)
(* duplicate name makes the commit raise IntegrityError, which nothing     *)
(* between here and upload_document's `except Exception` catches           *)
TagBulkCreate(w) ==
    /\ req[w].op \in {"upload", "tags", "attach"} /\ req[w].pc = "create_tags"
    /\ LET new == NewTagNames(req[w].kws, req[w].found)
           n == Cardinality(new)
       IN  IF UniqueNameViolation(tags, new)
           THEN /\ UNCHANGED <<tags, nextTagId>>
                /\ req' = [req EXCEPT ![w] = Raise(req[w], "IntegrityError", 500)]
           ELSE \E id \in [new -> nextTagId..(nextTagId + n - 1)] :
                  /\ \A x, y \in new : x # y => id[x] # id[y]
                  /\ LET rows == { [tag_id |-> id[x], name |-> x] : x \in new }
                     IN  /\ tags' = tags \cup rows
                         /\ nextTagId' = nextTagId + n
                         /\ req' = [req EXCEPT ![w].found = @ \cup rows,
                                               ![w].created = TRUE,
                                               ![w].pc = "got_tags"]
    /\ UNCHANGED <<threshold, kbModel, blobs, documents, nextDocId, links,
                   esIndex, started, authVars>>

\* Only the tag with the smallest id is linked.
FirstTagId(rows) ==
    { t.tag_id : t \in { x \in rows : \A y \in rows : x.tag_id <= y.tag_id } }

\* tag_ids = [tag.tag_id for tag in tags]
TagIds(rows) == { t.tag_id : t \in rows }

(* DocumentTagRepository.bulk_create, then the return of upload_document   *)
DocumentTagBulkCreate(w) ==
    /\ req[w].op \in {"upload", "attach"} /\ req[w].pc = "got_tags"
    /\ LET tag_ids == TagIds(req[w].found)
       IN  IF tag_ids # {} /\ LinkViolation(req[w].doc, tag_ids)
           THEN /\ links' = links
                /\ req' = [req EXCEPT ![w] = Raise(req[w], "IntegrityError", 500)]
           ELSE /\ links' = links (+) SetToBag({ <<req[w].doc, i>> : i \in tag_ids })
                /\ req' = [req EXCEPT ![w] =
                      Finish([req[w] EXCEPT !.outTags = req[w].found,
                                            !.linked = (tag_ids # {})], 200)]
    /\ UNCHANGED <<threshold, kbModel, blobs, documents, nextDocId, tags,
                   nextTagId, esIndex, started, authVars>>

\* The name lists a caller may pass to the tag service, as the collections
\* of their elements.
NameCollections ==
    { { l[i] : i \in 1..Len(l) } : l \in KeywordLists(KeywordCount) }

\* A tag-service call as it begins: its ordinal, and whether every other
\* worker is between requests.
Call(w, op, names) ==
    [Idle EXCEPT !.op = op, !.names = names, !.seq = started + 1,
                 !.solo = \A v \in Workers \ {w} : Free(v)]

(* TagService.get_or_create_tags called on its own: the tags are returned  *)
GetOrCreateTagsStart(w) ==
    /\ Free(w)
    /\ started < MaxRequests
    /\ \E names \in NameCollections :
         IF names = {}
         THEN req' = [req EXCEPT ![w] = Finish(Call(w, "tags", names), 200)]
         ELSE req' = [req EXCEPT ![w] =
                 [Call(w, "tags", names) EXCEPT !.pc = "find_tags",
                                               !.kws = names]]
    /\ started' = started + 1
    /\ UNCHANGED <<threshold, kbModel, blobs, documents, nextDocId, tags,
                   nextTagId, links, esIndex, authVars>>

GetOrCreateTagsReturn(w) ==
    /\ req[w].op = "tags" /\ req[w].pc = "got_tags"
    /\ req' = [req EXCEPT ![w] =
                  Finish([req[w] EXCEPT !.outTags = req[w].found], 200)]
    /\ UNCHANGED <<threshold, kbModel, blobs, documents, nextDocId, tags,
                   nextTagId, links, esIndex, started, authVars>>

(* TagService.attach_tags_to_document called on its own, with any names    *)
(* and any document id; `if not tag_names: return []`                      *)
AttachStart(w) ==
    /\ Free(w)
    /\ started < MaxRequests
    /\ \E d \in 1..nextDocId,
          names \in NameCollections :
         LET r == [Call(w, "attach", names) EXCEPT !.doc = d]
         IN  IF names = {}
             THEN req' = [req EXCEPT ![w] = Finish(r, 200)]
             ELSE req' = [req EXCEPT ![w] =
                     [r EXCEPT !.pc = "find_tags", !.kws = names]]
    /\ started' = started + 1
    /\ UNCHANGED <<threshold, kbModel, blobs, documents, nextDocId, tags,
                   nextTagId, links, esIndex, authVars>>

(* TagService.get_tags_by_document_id -> find_tags_by_document_id: the     *)
(* tags joined to the document's rows of document_tags                     *)
GetTagsByDocumentId(w) ==
    /\ Free(w)
    /\ started < MaxRequests
    /\ \E d \in 1..nextDocId :
         req' = [req EXCEPT ![w] =
            Finish([Call(w, "get_tags", {}) EXCEPT
                       !.doc = d,
                       !.outTags = { t \in tags : BagIn(<<d, t.tag_id>>, links) }],
                   200)]
    /\ started' = started + 1
    /\ UNCHANGED <<threshold, kbModel, blobs, documents, nextDocId, tags,
                   nextTagId, links, esIndex, authVars>>

(* TagService.get_or_create_tag -> TagRepository.get_or_create             *)
TagStart(w) ==
    /\ Free(w)
    /\ started < MaxRequests
    /\ \E name \in TagNames :
         req' = [req EXCEPT ![w] =
                    [Idle EXCEPT !.op = "tag", !.pc = "find_tag", !.kws = {name}]]
    /\ started' = started + 1
    /\ UNCHANGED <<threshold, kbModel, blobs, documents, nextDocId, tags,
                   nextTagId, links, esIndex, authVars>>

(* find_by_name; `if tag: return tag`                                      *)
FindByName(w) ==
    /\ req[w].op = "tag" /\ req[w].pc = "find_tag"
    /\ LET existing == { t \in tags : t.name \in req[w].kws }
       IN  IF existing # {}
           THEN req' = [req EXCEPT ![w] =
                          Finish([req[w] EXCEPT !.outTags = existing], 200)]
           ELSE req' = [req EXCEPT ![w].pc = "create_tag"]
    /\ UNCHANGED <<threshold, kbModel, blobs, documents, nextDocId, tags,
                   nextTagId, links, esIndex, started, authVars>>

(* TagRepository.create                                                    *)
TagCreate(w) ==
    /\ req[w].op = "tag" /\ req[w].pc = "create_tag"
    /\ IF UniqueNameViolation(tags, req[w].kws)
       THEN /\ UNCHANGED <<tags, nextTagId>>
            /\ req' = [req EXCEPT ![w] = Raise(req[w], "IntegrityError", 500)]
       ELSE LET rows == { [tag_id |-> nextTagId, name |-> x] : x \in req[w].kws }
            IN  /\ tags' = tags \cup rows
                /\ nextTagId' = nextTagId + 1
                /\ req' = [req EXCEPT ![w] =
                      Finish([req[w] EXCEPT !.outTags = rows,
                                            !.created = TRUE], 200)]
    /\ UNCHANGED <<threshold, kbModel, blobs, documents, nextDocId, links,
                   esIndex, started, authVars>>

----------------------------------------------------------------------------
(* delete_document (domains/documents/service.py)                          *)

\* delete_document refusing a document that has no entry in the search index.
DocumentFoundIndexRequired(r, row) ==
    IF row.document_id \notin esIndex
    THEN Raise(r, "NotFoundError", 500)
    ELSE [r EXCEPT !.pc = "delete_blob", !.key = row.storage_path]

\* delete_document deleting the row first and the blob second.
DocumentFoundRowFirst(r, row) ==
    [r EXCEPT !.pc = "delete_row", !.key = row.storage_path]

\* delete_document once the row is found: it enters the try block, whose
\* first call is minio_client.delete_file(document.storage_path)
DocumentFound(r, row) ==
    [r EXCEPT !.pc = "delete_blob", !.key = row.storage_path]

\* The lookup by document id alone, whoever asks.
FindByIdOnly(d, u) == { row \in documents : row.document_id = d }

\* DocumentRepository.find_by_id_and_user_id: the rows, at most one, with
\* Document.document_id == document_id and Document.user_id == user_id
FindByIdAndUserId(d, u) ==
    { row \in documents : row.document_id = d /\ row.user_id = u }

\* The listing without its WHERE clause: every row of the table.
FindAll(u) == documents

\* find_all_by_user_id: the rows WHERE user_id == user_id (their order, by
\* upload time, is left out)
FindAllByUserId(u) == { row \in documents : row.user_id = u }

(* DocumentService.get_document_by_id -> find_by_id_and_user_id            *)
GetDocumentById(w) ==
    /\ Free(w)
    /\ started < MaxRequests
    /\ \E d \in 1..nextDocId, u \in Users :
         req' = [req EXCEPT ![w] =
            Finish([Idle EXCEPT !.op = "get_document", !.user = u, !.doc = d,
                                !.outDocs = FindByIdAndUserId(d, u)], 200)]
    /\ started' = started + 1
    /\ UNCHANGED <<threshold, kbModel, blobs, documents, nextDocId, tags,
                   nextTagId, links, esIndex, authVars>>

(* DocumentService.get_user_documents -> find_all_by_user_id               *)
GetUserDocuments(w) ==
    /\ Free(w)
    /\ started < MaxRequests
    /\ \E u \in Users :
         req' = [req EXCEPT ![w] =
            Finish([Idle EXCEPT !.op = "get_documents", !.user = u,
                                !.outDocs = FindAllByUserId(u)], 200)]
    /\ started' = started + 1
    /\ UNCHANGED <<threshold, kbModel, blobs, documents, nextDocId, tags,
                   nextTagId, links, esIndex, authVars>>

(* step 1: find_by_id_and_user_id; 404 when there is no such row           *)
DeleteStart(w) ==
    /\ Free(w)
    /\ started < MaxRequests
    /\ \E d \in 1..nextDocId, u \in Users :
         LET r == [Idle EXCEPT !.op = "delete", !.user = u, !.doc = d]
             hit == FindByIdAndUserId(d, u)
         IN  IF hit = {}
             THEN req' = [req EXCEPT ![w] = Raise(r, "HTTPException", 404)]
             ELSE req' = [req EXCEPT ![w] =
                     DocumentFound(r, CHOOSE row \in hit : TRUE)]
    /\ started' = started + 1
    /\ UNCHANGED <<threshold, kbModel, blobs, documents, nextDocId, tags,
                   nextTagId, links, esIndex, authVars>>

(* step 2: minio_client.delete_file; S3Error is re-raised, and the         *)
(* `except Exception` of delete_document turns it into a 500 at once       *)
MinioDeleteFile(w) ==
    /\ req[w].op = "delete" /\ req[w].pc = "delete_blob"
    /\ \E ok \in BOOLEAN :
         IF ok
         THEN /\ blobs' = blobs \ {req[w].key}
              /\ req' = [req EXCEPT ![w].pc = "delete_row",
                                    ![w].blobDeleted = TRUE]
         ELSE /\ blobs' = blobs
              /\ req' = [req EXCEPT ![w] =
                    Raise([req[w] EXCEPT !.blobDeleteFailed = TRUE],
                          "S3Error", 500)]
    /\ UNCHANGED <<threshold, kbModel, documents, nextDocId, tags, nextTagId,
                   links, esIndex, started, authVars>>

(* step 3: document_repository.delete; on any exception it rolls back and  *)
(* returns False, and delete_document raises a 500                         *)
DocumentRepositoryDelete(w) ==
    /\ req[w].op = "delete" /\ req[w].pc = "delete_row"
    /\ \E ok \in BOOLEAN :
         IF ok /\ DocExists(req[w].doc)
         THEN /\ documents' = { row \in documents : row.document_id # req[w].doc }
              /\ links' = CascadeDocument(req[w].doc)
              /\ req' = [req EXCEPT ![w] =
                    Finish([req[w] EXCEPT !.rowDeleteTried = TRUE], 200)]
         ELSE /\ UNCHANGED <<documents, links>>
              /\ req' = [req EXCEPT ![w] =
                    Raise([req[w] EXCEPT !.rowDeleteTried = TRUE],
                          "HTTPException", 500)]
    /\ UNCHANGED <<threshold, kbModel, blobs, nextDocId, tags, nextTagId,
                   esIndex, started, authVars>>

----------------------------------------------------------------------------
(* Auth domain (domains/auth/controller.py, service/session_service.py)    *)

\* Authorization codes Kakao hands out, and the Kakao account of each.
Codes == {1, 2}
KakaoIdOf(code) == "k1"
\* kakao_id values given to test_login.
KakaoIds == {"k1", "k2"}

AuthIdle ==
    [ op |-> "none", pc |-> "idle", code |-> 0, kakao_id |-> "none",
      user_id |-> 0, sid |-> 0, cookie |-> 0, status |-> 0, raised |-> "none",
      sawLock |-> FALSE, passed |-> FALSE, result |-> "none", seq |-> 0 ]

AuthFree(w) == areq[w].pc \in {"idle", "done"}

AuthFinish(r, code) == [r EXCEPT !.pc = "done", !.status = code]
AuthRaise(r, exc, code) ==
    [r EXCEPT !.pc = "done", !.status = code, !.raised = exc]

\* core/redis.py builds the client with decode_responses=True, so GET yields a
\* str (or None); get_session_by_code then evaluates
\*     session_id.decode() if session_id else None
\* and str has no decode(): a stored mapping makes it raise AttributeError.
\* The result is <<"ok", None>> when the key is absent.
GetSessionByCode(code) ==
    IF code \in DOMAIN codeSession
    THEN <<"AttributeError", codeSession[code]>>
    ELSE <<"ok", 0>>

\* The part of kakao_callback that follows a get_session_by_code call whose
\* value is truthy: redirect with the existing session in the cookie.
JoinExisting(r, sid) == AuthFinish([r EXCEPT !.cookie = sid], 307)

(* kakao_callback, step 0: get_session_by_code(code)                       *)
CallbackStart(w) ==
    /\ AuthFree(w)
    /\ authStarted < MaxAuthRequests
    /\ \E code \in Codes :
         LET r == [AuthIdle EXCEPT !.op = "callback", !.code = code]
             got == GetSessionByCode(code)
         IN  IF got[1] # "ok"
             THEN areq' = [areq EXCEPT ![w] = AuthRaise(r, got[1], 500)]
             ELSE IF got[2] # 0
             THEN areq' = [areq EXCEPT ![w] = JoinExisting(r, got[2])]
             ELSE areq' = [areq EXCEPT ![w] =
                              [r EXCEPT !.pc = "check_lock", !.passed = TRUE]]
    /\ authStarted' = authStarted + 1
    /\ UNCHANGED <<docVars, sessions, codeSession, codeLock, users, nextUserId,
                   kakaoRedeemed, sessionsMade>>

(* step 0-1: is_processing = await redis_client.get(code_lock_key)         *)
CheckLock(w) ==
    /\ areq[w].op = "callback" /\ areq[w].pc = "check_lock"
    /\ IF areq[w].code \in codeLock
       THEN areq' = [areq EXCEPT ![w].pc = "wait", ![w].sawLock = TRUE]
       ELSE areq' = [areq EXCEPT ![w].pc = "set_lock"]
    /\ UNCHANGED <<docVars, sessions, codeSession, codeLock, users, nextUserId,
                   kakaoRedeemed, sessionsMade, authStarted>>

(* after the wait a request that finds no mapping goes on with the login  *)
AfterWaitProceeds(w) ==
    /\ areq[w].op = "callback" /\ areq[w].pc = "wait"
    /\ LET got == GetSessionByCode(areq[w].code)
       IN  IF got[1] # "ok"
           THEN areq' = [areq EXCEPT ![w] = AuthRaise(areq[w], got[1], 500)]
           ELSE IF got[2] # 0
           THEN areq' = [areq EXCEPT ![w] = JoinExisting(areq[w], got[2])]
           ELSE areq' = [areq EXCEPT ![w].pc = "set_lock"]
    /\ UNCHANGED <<docVars, sessions, codeSession, codeLock, users, nextUserId,
                   kakaoRedeemed, sessionsMade, authStarted>>

(* after asyncio.sleep(1): get_session_by_code again, else 409             *)
AfterWait(w) ==
    /\ areq[w].op = "callback" /\ areq[w].pc = "wait"
    /\ LET got == GetSessionByCode(areq[w].code)
       IN  IF got[1] # "ok"
           THEN areq' = [areq EXCEPT ![w] = AuthRaise(areq[w], got[1], 500)]
           ELSE IF got[2] # 0
           THEN areq' = [areq EXCEPT ![w] = JoinExisting(areq[w], got[2])]
           ELSE areq' = [areq EXCEPT ![w] =
                            AuthRaise(areq[w], "HTTPException", 409)]
    /\ UNCHANGED <<docVars, sessions, codeSession, codeLock, users, nextUserId,
                   kakaoRedeemed, sessionsMade, authStarted>>

(* await redis_client.setex(code_lock_key, 30, "processing")               *)
SetLock(w) ==
    /\ areq[w].op = "callback" /\ areq[w].pc = "set_lock"
    /\ codeLock' = codeLock \cup {areq[w].code}
    /\ areq' = [areq EXCEPT ![w].pc = "authenticate"]
    /\ UNCHANGED <<docVars, sessions, codeSession, users, nextUserId,
                   kakaoRedeemed, sessionsMade, authStarted>>

(* step 1: kakao_service.authenticate(code). Kakao exchanges a code once   *)
(* (KOE320 afterwards); every failure is an HTTPException 400.             *)
KakaoAuthenticate(w) ==
    /\ areq[w].op = "callback" /\ areq[w].pc = "authenticate"
    /\ \/ \* get_access_token fails: the code is spent, or Kakao refuses
          /\ areq' = [areq EXCEPT ![w] = AuthRaise(areq[w], "HTTPException", 400)]
          /\ kakaoRedeemed' = kakaoRedeemed
       \/ \* the code is exchanged, and get_user_info answers or fails
          /\ areq[w].code \notin kakaoRedeemed
          /\ kakaoRedeemed' = kakaoRedeemed \cup {areq[w].code}
          /\ \E ok \in BOOLEAN :
               IF ok
               THEN areq' = [areq EXCEPT ![w].pc = "find_user",
                                         ![w].kakao_id = KakaoIdOf(areq[w].code)]
               ELSE areq' = [areq EXCEPT ![w] =
                                AuthRaise(areq[w], "HTTPException", 400)]
    /\ UNCHANGED <<docVars, sessions, codeSession, codeLock, users, nextUserId,
                   sessionsMade, authStarted>>

(* test_login(kakao_id), development only                                  *)
TestLoginStart(w) ==
    /\ AuthFree(w)
    /\ authStarted < MaxAuthRequests
    /\ \E k \in KakaoIds :
         areq' = [areq EXCEPT ![w] =
                    [AuthIdle EXCEPT !.op = "test_login", !.pc = "find_user",
                                     !.kakao_id = k]]
    /\ authStarted' = authStarted + 1
    /\ UNCHANGED <<docVars, sessions, codeSession, codeLock, users, nextUserId,
                   kakaoRedeemed, sessionsMade>>

(* step 2: select(User).where(User.kakao_id == kakao_id)                   *)
FindUser(w) ==
    /\ areq[w].pc = "find_user"
    /\ LET hit == { u \in users : u.kakao_id = areq[w].kakao_id }
       IN  IF hit = {}
           THEN areq' = [areq EXCEPT ![w].pc = "create_user"]
           ELSE areq' = [areq EXCEPT ![w].pc = "create_session",
                                     ![w].user_id = (CHOOSE u \in hit : TRUE).user_id]
    /\ UNCHANGED <<docVars, sessions, codeSession, codeLock, users, nextUserId,
                   kakaoRedeemed, sessionsMade, authStarted>>

\* The users table with a plain index on kakao_id.
NoUniqueKakaoId(rows, k) == FALSE

\* ix_users_kakao_id, unique
UniqueKakaoIdViolation(rows, k) == \E u \in rows : u.kakao_id = k

(* db.add(user); await db.commit()                                         *)
CreateUser(w) ==
    /\ areq[w].pc = "create_user"
    /\ IF UniqueKakaoIdViolation(users, areq[w].kakao_id)
       THEN /\ UNCHANGED <<users, nextUserId>>
            /\ areq' = [areq EXCEPT ![w] = AuthRaise(areq[w], "IntegrityError", 500)]
       ELSE /\ users' = users \cup
                  { [user_id |-> nextUserId, kakao_id |-> areq[w].kakao_id] }
            /\ nextUserId' = nextUserId + 1
            /\ areq' = [areq EXCEPT ![w].pc = "create_session",
                                    ![w].user_id = nextUserId]
    /\ UNCHANGED <<docVars, sessions, codeSession, codeLock, kakaoRedeemed,
                   sessionsMade, authStarted>>

\* uuid.uuid4(): a session id no earlier call has returned
NewSessionId == Cardinality(sessionsMade) + 1

\* str(n) for a natural number, one character per decimal digit
DigitChar(d) ==
    CASE d = 0 -> "0" [] d = 1 -> "1" [] d = 2 -> "2" [] d = 3 -> "3"
      [] d = 4 -> "4" [] d = 5 -> "5" [] d = 6 -> "6" [] d = 7 -> "7"
      [] d = 8 -> "8" [] d = 9 -> "9"

RECURSIVE Digits(_)
Digits(n) == IF n < 10 THEN <<DigitChar(n)>>
             ELSE Append(Digits(n \div 10), DigitChar(n % 10))

\* int(text) for a sequence of decimal digits
DigitValue(c) == CHOOSE d \in 0..9 : DigitChar(d) = c

RECURSIVE Number(_)
Number(text) ==
    IF Len(text) = 0 THEN 0
    ELSE 10 * Number(SubSeq(text, 1, Len(text) - 1)) + DigitValue(text[Len(text)])

\* json.dumps({"user_id": user_id}), as the tokens of the text
JsonDumps(data) == <<"{", "user_id", ":">> \o Digits(data.user_id) \o <<"}">>

\* json.loads of such a text
JsonLoads(text) == [user_id |-> Number(SubSeq(text, 4, Len(text) - 1))]

(* step 3: session_service.create_session(user.user_id); test_login        *)
(* returns here                                                            *)
CreateSession(w) ==
    /\ areq[w].pc = "create_session"
    /\ LET sid == NewSessionId
       IN  /\ sessions' = [s \in DOMAIN sessions \cup {sid} |->
                              IF s = sid
                              THEN JsonDumps([user_id |-> areq[w].user_id])
                              ELSE sessions[s]]
           /\ sessionsMade' = sessionsMade \cup
                 { [sid |-> sid, code |-> areq[w].code,
                    user_id |-> areq[w].user_id, ended |-> FALSE] }
           /\ IF areq[w].op = "test_login"
              THEN areq' = [areq EXCEPT ![w] =
                      AuthFinish([areq[w] EXCEPT !.sid = sid, !.cookie = sid], 200)]
              ELSE areq' = [areq EXCEPT ![w].sid = sid, ![w].pc = "save_mapping"]
    /\ UNCHANGED <<docVars, codeSession, codeLock, users, nextUserId,
                   kakaoRedeemed, authStarted>>

(* step 4-5: save_code_session_mapping(code, session_id), then redirect    *)
SaveCodeSessionMapping(w) ==
    /\ areq[w].op = "callback" /\ areq[w].pc = "save_mapping"
    /\ codeSession' = [c \in DOMAIN codeSession \cup {areq[w].code} |->
                          IF c = areq[w].code THEN areq[w].sid ELSE codeSession[c]]
    /\ areq' = [areq EXCEPT ![w] =
                  AuthFinish([areq[w] EXCEPT !.cookie = areq[w].sid], 307)]
    /\ UNCHANGED <<docVars, sessions, codeLock, users, nextUserId,
                   kakaoRedeemed, sessionsMade, authStarted>>

\* The session ids a caller may present: every id handed out so far and
\* one that no create_session call has returned.
SessionIds == 1 .. (Cardinality(sessionsMade) + 1)

\* redis.get(key): the stored value, or None
RedisGet(store, key) == IF key \in DOMAIN store THEN <<store[key]>> ELSE <<>>

\* redis.delete(key): the number of keys removed
RedisDelete(store, key) == IF key \in DOMAIN store THEN 1 ELSE 0

\* The key is gone from Redis: deleted, or its time to live has run out.
SessionEnded(made, sid) ==
    { IF m.sid = sid THEN [m EXCEPT !.ended = TRUE] ELSE m : m \in made }

\* delete_session reporting success whatever Redis removed.
SessionDeletedAlways(result) == result >= 0

\* return result > 0
SessionDeleted(result) == result > 0

\* get_session: None when the key holds nothing, else json.loads of it;
\* <<"None", 0>> or <<"data", user_id>>
SessionData(sid) ==
    LET session_data_json == RedisGet(sessions, sid)
    IN  IF session_data_json = <<>>
        THEN <<"None", 0>>
        ELSE <<"data", JsonLoads(session_data_json[1]).user_id>>

(* session_service.get_session(session_id)                                 *)
GetSession(w) ==
    /\ AuthFree(w)
    /\ authStarted < MaxAuthRequests
    /\ \E sid \in SessionIds :
         LET got == SessionData(sid)
         IN  areq' = [areq EXCEPT ![w] =
                AuthFinish([AuthIdle EXCEPT !.op = "get_session", !.sid = sid,
                                            !.result = got[1], !.user_id = got[2],
                                            !.seq = authStarted + 1], 0)]
    /\ authStarted' = authStarted + 1
    /\ UNCHANGED <<docVars, sessions, codeSession, codeLock, users, nextUserId,
                   kakaoRedeemed, sessionsMade>>

(* session_service.delete_session(session_id), as logout calls it          *)
DeleteSession(w) ==
    /\ AuthFree(w)
    /\ authStarted < MaxAuthRequests
    /\ \E sid \in SessionIds :
         LET result == RedisDelete(sessions, sid)
         IN  /\ sessions' = [s \in DOMAIN sessions \ {sid} |-> sessions[s]]
             /\ sessionsMade' = SessionEnded(sessionsMade, sid)
             /\ areq' = [areq EXCEPT ![w] =
                   AuthFinish([AuthIdle EXCEPT
                                  !.op = "delete_session", !.sid = sid,
                                  !.result = IF SessionDeleted(result)
                                             THEN "True" ELSE "False",
                                  !.seq = authStarted + 1], 0)]
    /\ authStarted' = authStarted + 1
    /\ UNCHANGED <<docVars, codeSession, codeLock, users, nextUserId,
                   kakaoRedeemed>>

\* The session_id cookie of a request: none (0), or any session id.
Cookies == {0} \cup SessionIds

\* A request taken as authenticated on its cookie alone.
AuthenticatedByCookie(cookie) == cookie # 0

\* get_current_session_data passes: the cookie is there and
\* redis_client.get("session:{session_id}") holds a value
Authenticated(cookie) == cookie # 0 /\ RedisGet(sessions, cookie) # <<>>

(* core/security.py get_current_session_data, the dependency of every      *)
(* protected route                                                         *)
GetCurrentSessionData(w) ==
    /\ AuthFree(w)
    /\ authStarted < MaxAuthRequests
    /\ \E cookie \in Cookies :
         LET r == [AuthIdle EXCEPT !.op = "authenticate", !.sid = cookie,
                                   !.seq = authStarted + 1]
             session_data_json == RedisGet(sessions, cookie)
         IN  IF ~Authenticated(cookie)
             THEN areq' = [areq EXCEPT ![w] = AuthRaise(r, "HTTPException", 401)]
             ELSE areq' = [areq EXCEPT ![w] =
                     AuthFinish([r EXCEPT !.user_id =
                                    IF session_data_json = <<>> THEN 0
                                    ELSE JsonLoads(session_data_json[1]).user_id],
                                200)]
    /\ authStarted' = authStarted + 1
    /\ UNCHANGED <<docVars, sessions, codeSession, codeLock, users, nextUserId,
                   kakaoRedeemed, sessionsMade>>

(* logout: delete_session when the cookie is there, then delete_cookie      *)
Logout(w) ==
    /\ AuthFree(w)
    /\ authStarted < MaxAuthRequests
    /\ \E cookie \in Cookies :
         /\ IF cookie # 0
            THEN /\ sessions' = [s \in DOMAIN sessions \ {cookie} |-> sessions[s]]
                 /\ sessionsMade' = SessionEnded(sessionsMade, cookie)
            ELSE UNCHANGED <<sessions, sessionsMade>>
         /\ areq' = [areq EXCEPT ![w] =
               AuthFinish([AuthIdle EXCEPT
                              !.op = "logout", !.sid = cookie,
                              !.result = IF cookie = 0 THEN "none"
                                         ELSE IF SessionDeleted(RedisDelete(sessions, cookie))
                                         THEN "True" ELSE "False",
                              !.seq = authStarted + 1], 200)]
    /\ authStarted' = authStarted + 1
    /\ UNCHANGED <<docVars, codeSession, codeLock, users, nextUserId,
                   kakaoRedeemed>>

(* Redis drops "session:{sid}" when its 3600 s have run out                *)
RedisExpireSession ==
    /\ \E sid \in DOMAIN sessions :
         /\ sessions' = [s \in DOMAIN sessions \ {sid} |-> sessions[s]]
         /\ sessionsMade' = SessionEnded(sessionsMade, sid)
    /\ UNCHANGED <<docVars, codeSession, codeLock, users, nextUserId,
                   kakaoRedeemed, authStarted, areq>>

(* Redis drops a key when its time to live runs out: 30 s for the lock     *)
RedisExpireLock ==
    /\ \E c \in codeLock : codeLock' = codeLock \ {c}
    /\ UNCHANGED <<docVars, sessions, codeSession, users, nextUserId,
                   kakaoRedeemed, sessionsMade, authStarted, areq>>

Init ==
    /\ threshold \in 0..MaxThreshold
    /\ kbModel = "None"
    /\ blobs = {}
    /\ documents = {}
    /\ nextDocId = 1
    /\ tags = {}
    /\ nextTagId = 1
    /\ links = EmptyBag
    /\ esIndex = {}
    /\ started = 0
    /\ req = [w \in Workers |-> Idle]
    /\ sessions = << >>
    /\ codeSession = << >>
    /\ codeLock = {}
    /\ users = {}
    /\ nextUserId = 1
    /\ kakaoRedeemed = {}
    /\ sessionsMade = {}
    /\ authStarted = 0
    /\ areq = [w \in Workers |-> AuthIdle]

Next ==
    \E w \in Workers :
        \/ UploadStart(w)
        \/ MinioUploadFile(w)
        \/ DocumentRepositoryCreate(w)
        \/ ExtractText(w)
        \/ IndexDocument(w)
        \/ GetDocumentCount(w)
        \/ KeyBERTExtract(w)
        \/ ElasticsearchExtract(w)
        \/ FindAllByNames(w)
        \/ TagBulkCreate(w)
        \/ DocumentTagBulkCreate(w)
        \/ DeleteStart(w)
        \/ MinioDeleteFile(w)
        \/ DocumentRepositoryDelete(w)

Spec == Init /\ [][Next]_vars

\* A step of the upload_document coroutine of worker w past its first: the
\* external call it awaits has returned or failed and the coroutine goes on.
UploadStep(w) ==
    /\ req[w].op = "upload"
    /\ \/ MinioUploadFile(w)
       \/ DocumentRepositoryCreate(w)
       \/ ExtractText(w)
       \/ IndexDocument(w)
       \/ GetDocumentCount(w)
       \/ KeyBERTExtract(w)
       \/ ElasticsearchExtract(w)
       \/ FindAllByNames(w)
       \/ TagBulkCreate(w)
       \/ DocumentTagBulkCreate(w)

\* The event loop resumes every coroutine whose awaited call has ended, so
\* no upload waits forever on a call that has returned or failed.
SpecLive == Init /\ [][Next]_vars /\ \A w \in Workers : WF_vars(UploadStep(w))

\* The tag catalogue on its own: concurrent get-or-create calls.
NextTags ==
    \E w \in Workers :
        \/ GetOrCreateTagsStart(w)
        \/ FindAllByNames(w)
        \/ TagBulkCreate(w)
        \/ GetOrCreateTagsReturn(w)
        \/ TagStart(w)
        \/ FindByName(w)
        \/ TagCreate(w)

SpecTags == Init /\ [][NextTags]_vars

\* The database with one document in it and no tags: what an upload whose
\* text was too short leaves behind.
InitAttach ==
    /\ threshold \in 0..MaxThreshold
    /\ kbModel = "None"
    /\ blobs = {1}
    /\ documents = { [document_id |-> 1, user_id |-> 1, storage_path |-> 1] }
    /\ nextDocId = 2
    /\ tags = {}
    /\ nextTagId = 1
    /\ links = EmptyBag
    /\ esIndex = {}
    /\ started = 0
    /\ req = [w \in Workers |-> Idle]
    /\ sessions = << >>
    /\ codeSession = << >>
    /\ codeLock = {}
    /\ users = {}
    /\ nextUserId = 1
    /\ kakaoRedeemed = {}
    /\ sessionsMade = {}
    /\ authStarted = 0
    /\ areq = [w \in Workers |-> AuthIdle]

\* Tag attachment on its own: attach_tags_to_document and
\* get_tags_by_document_id calls on that document.
NextAttach ==
    \E w \in Workers :
        \/ AttachStart(w)
        \/ FindAllByNames(w)
        \/ TagBulkCreate(w)
        \/ DocumentTagBulkCreate(w)
        \/ GetTagsByDocumentId(w)

SpecAttach == InitAttach /\ [][NextAttach]_vars

\* The database with one document of each user in it and no tags: what two
\* uploads whose text was too short leave behind. The threshold is 0, so
\* every upload takes the Elasticsearch strategy.
InitDocs ==
    /\ threshold = 0
    /\ kbModel = "None"
    /\ blobs = {1, 2}
    /\ documents = { [document_id |-> 1, user_id |-> 2, storage_path |-> 1],
                     [document_id |-> 2, user_id |-> 1, storage_path |-> 2] }
    /\ nextDocId = 3
    /\ tags = {}
    /\ nextTagId = 1
    /\ links = EmptyBag
    /\ esIndex = {}
    /\ started = 0
    /\ req = [w \in Workers |-> Idle]
    /\ sessions = << >>
    /\ codeSession = << >>
    /\ codeLock = {}
    /\ users = {}
    /\ nextUserId = 1
    /\ kakaoRedeemed = {}
    /\ sessionsMade = {}
    /\ authStarted = 0
    /\ areq = [w \in Workers |-> AuthIdle]

\* Every operation of DocumentService: uploads, deletes and the two reads.
\* With the threshold at 0 no upload reaches the KeyBERT strategy.
NextDocs ==
    \E w \in Workers :
        \/ UploadStart(w)
        \/ MinioUploadFile(w)
        \/ DocumentRepositoryCreate(w)
        \/ ExtractText(w)
        \/ IndexDocument(w)
        \/ GetDocumentCount(w)
        \/ ElasticsearchExtract(w)
        \/ FindAllByNames(w)
        \/ TagBulkCreate(w)
        \/ DocumentTagBulkCreate(w)
        \/ DeleteStart(w)
        \/ MinioDeleteFile(w)
        \/ DocumentRepositoryDelete(w)
        \/ GetDocumentById(w)
        \/ GetUserDocuments(w)

SpecDocs == InitDocs /\ [][NextDocs]_vars

\* Login: concurrent kakao_callback and test_login requests.
NextAuth ==
    \/ \E w \in Workers :
          \/ CallbackStart(w)
          \/ CheckLock(w)
          \/ AfterWait(w)
          \/ SetLock(w)
          \/ KakaoAuthenticate(w)
          \/ TestLoginStart(w)
          \/ FindUser(w)
          \/ CreateUser(w)
          \/ CreateSession(w)
          \/ SaveCodeSessionMapping(w)
    \/ RedisExpireLock

SpecAuth == Init /\ [][NextAuth]_vars

\* Both workers are about to ask for the significant terms of the same
\* document, with the same size, while the index stays as it is.
InitTerms ==
    /\ threshold = 0
    /\ kbModel = "None"
    /\ blobs = {1}
    /\ documents = { [document_id |-> 1, user_id |-> 1, storage_path |-> 1] }
    /\ nextDocId = 2
    /\ tags = {}
    /\ nextTagId = 1
    /\ links = EmptyBag
    /\ esIndex = {1}
    /\ started = 0
    /\ \E total_docs \in FieldDocCounts, k \in 0..MaxTerms, size \in 0..KeywordCount :
         \E v \in [1..k -> TermInfos(TermPool, total_docs)] :
            /\ DistinctTerms(v)
            /\ req = [w \in Workers |->
                  [Idle EXCEPT !.op = "significant_terms", !.pc = "call",
                               !.doc = 1, !.terms = v, !.total = total_docs,
                               !.size = size]]
    /\ sessions = << >>
    /\ codeSession = << >>
    /\ codeLock = {}
    /\ users = {}
    /\ nextUserId = 1
    /\ kakaoRedeemed = {}
    /\ sessionsMade = {}
    /\ authStarted = 0
    /\ areq = [w \in Workers |-> AuthIdle]

NextTerms == \E w \in Workers : ExtractSignificantTerms(w)

SpecTerms == InitTerms /\ [][NextTerms]_vars

\* Each worker is about to call the text extractor on the same file, under
\* a MIME type of its own.
InitText ==
    /\ threshold = 0
    /\ kbModel = "None"
    /\ blobs = {}
    /\ documents = {}
    /\ nextDocId = 1
    /\ tags = {}
    /\ nextTagId = 1
    /\ links = EmptyBag
    /\ esIndex = {}
    /\ started = 0
    /\ \E d \in FileData, lib \in BOOLEAN, ft \in [Workers -> FileTypes] :
         req = [w \in Workers |->
                  [Idle EXCEPT !.op = "extract_text", !.pc = "call",
                               !.mime = ft[w], !.bytes = d.bytes,
                               !.wellFormed = d.wellFormed, !.installed = lib]]
    /\ sessions = << >>
    /\ codeSession = << >>
    /\ codeLock = {}
    /\ users = {}
    /\ nextUserId = 1
    /\ kakaoRedeemed = {}
    /\ sessionsMade = {}
    /\ authStarted = 0
    /\ areq = [w \in Workers |-> AuthIdle]

\* The text extractor on its own, over every file type and file.
NextText == \E w \in Workers : ExtractTextFromBytesCall(w)

SpecText == InitText /\ [][NextText]_vars

\* The session service on its own: sessions made by test_login, read,
\* deleted and expiring.
NextSession ==
    \/ \E w \in Workers :
          \/ TestLoginStart(w) \/ FindUser(w) \/ CreateUser(w) \/ CreateSession(w)
          \/ GetSession(w) \/ DeleteSession(w)
          \/ GetCurrentSessionData(w) \/ Logout(w)
    \/ RedisExpireSession

SpecSession == Init /\ [][NextSession]_vars

----------------------------------------------------------------------------
(* Properties                                                              *)

Uploads == { w \in Workers : req[w].op = "upload" }
Deletes == { w \in Workers : req[w].op = "delete" }

\* C1: whenever extract_keywords has chosen a strategy, it chose KeyBERT
\* exactly when the count it read is below the threshold, and the method tag
\* it returns is the tag of that strategy, for every count, threshold and
\* extractor output.
C1_StrategyByCountAndThreshold ==
    \A w \in Uploads :
        /\ req[w].ran = "keybert" => req[w].count < threshold
        /\ req[w].ran = "elasticsearch" => req[w].count >= threshold
        /\ req[w].ek = "returned" =>
              /\ req[w].method = req[w].ran
              /\ req[w].method =
                    IF req[w].count < threshold THEN "keybert" ELSE "elasticsearch"

\* C1 witness: one call has returned with the KeyBERT tag and another with
\* the Elasticsearch tag.
C1_BothStrategiesReturned ==
    \E v, w \in Uploads :
        /\ req[v].ek = "returned" /\ req[v].method = "keybert"
        /\ req[w].ek = "returned" /\ req[w].method = "elasticsearch"

\* C2 (as claimed): when both workers run get_or_create_tags and have both
\* finished, neither ended with the duplicate-key IntegrityError, and a name
\* both asked for came back with one and the same tag id.
C2_ConcurrentBulkGetOrCreateConverges ==
    (\A w \in Workers : req[w].op = "tags" /\ req[w].pc = "done") =>
        /\ \A w \in Workers : req[w].raised # "IntegrityError"
        /\ \A v, w \in Workers : \A s \in req[v].outTags, t \in req[w].outTags :
              s.name = t.name => s.tag_id = t.tag_id

\* C3: the tag table never holds two rows with the same name.
C3_OneRowPerTagName ==
    \A s, t \in tags : s.name = t.name => s = t

\* C3 witness: two get-or-create calls raced for one new name; the second
\* insert was refused and the table holds that name.
C3_RaceRefused ==
    \E w \in Workers :
        /\ req[w].raised = "IntegrityError"
        /\ tags # {}

\* C4 (as claimed): an upload whose index upsert failed and which returns
\* success returns an empty tag list and has created no document-tag link.
C4_IndexFailureEndsWithoutTags ==
    \A w \in Uploads :
        (req[w].pc = "done" /\ req[w].indexFailed /\ req[w].status = 200) =>
            /\ req[w].outTags = {}
            /\ ~req[w].linked

\* C5 (as claimed): when KeyBERT cannot be loaded and the embedding strategy
\* is selected, extract_keywords returns (an empty list, "keybert") and does
\* not raise.
C5_UnavailableRankerReturnsEmpty ==
    \A w \in Uploads :
        req[w].kbUnavailable =>
            /\ req[w].ek = "returned"
            /\ req[w].method = "keybert"
            /\ req[w].kws = {}

\* C6 (as claimed): when a SearchIndex call made during extract_keywords
\* failed and extract_keywords has returned, the list it returned is empty.
C6_IndexFailureReturnsEmpty ==
    \A w \in Uploads :
        (req[w].esFailed /\ req[w].ek = "returned" /\ req[w].pc # "done") =>
            req[w].kws = {}

\* C7 (as claimed): once the Document row is persisted, upload_document
\* raises nothing to its caller.
C7_NoErrorAfterRowPersisted ==
    \A w \in Uploads :
        (req[w].pc = "done" /\ req[w].rowPersisted) =>
            /\ req[w].raised = "none"
            /\ req[w].status = 200

\* C8 (as claimed): when the blob delete failed, delete_document has still
\* tried to delete the Document row, and it reports failure.
C8_RowDeleteTriedAfterBlobFailure ==
    \A w \in Deletes :
        (req[w].pc = "done" /\ req[w].blobDeleteFailed) =>
            /\ req[w].rowDeleteTried
            /\ req[w].status >= 400

\* C9 (as claimed): when delete_document has finished and its blob delete
\* succeeded, the Document row is gone.
C9_NoRowLeftAfterBlobDeleted ==
    \A w \in Deletes :
        (req[w].pc = "done" /\ req[w].blobDeleted) => ~DocExists(req[w].doc)

\* C10 (as claimed): no authorization code gets two sessions, and when one
\* kakao_callback has redeemed a code and created its session, a request
\* with the same code that was under way meanwhile has either returned that
\* session id or failed with 409.
C10_DuplicateCodeJoinsOrConflicts ==
    /\ \A c \in Codes :
          Cardinality({ s \in sessionsMade : s.code = c }) <= 1
    /\ \A v, w \in Workers :
          ( /\ v # w
            /\ areq[v].op = "callback" /\ areq[w].op = "callback"
            /\ areq[v].code = areq[w].code
            /\ areq[v].pc = "done" /\ areq[v].sid # 0
            /\ areq[w].pc = "done" /\ areq[w].passed /\ areq[w].sid = 0 ) =>
              \/ areq[w].status = 307 /\ areq[w].cookie = areq[v].sid
              \/ areq[w].status = 409

\* The string is what strip().lower() leaves unchanged, and is not empty.
IsNormalKeyword(k) == k # <<>> /\ Strip(k) = k /\ Lower(k) = k

\* The document has a row in document_tags.
HasLink(d) == \E p \in DOMAIN links : p[1] = d

\* C11: every keyword list extract_keywords returns, under either strategy,
\* holds only non-empty, trimmed, lower-case strings, and no two of its
\* elements are the same string up to case and surrounding blanks.
C11_ReturnedKeywordsNormalized ==
    \A w \in Uploads :
        req[w].ek = "returned" =>
            \A k \in req[w].kws :
                /\ IsNormalKeyword(k)
                /\ \A j \in req[w].kws :
                      Lower(Strip(j)) = Lower(Strip(k)) => j = k

\* C11 witness: an extractor handed back a list that was not normal (upper
\* case, padding, blanks or repeats) and extract_keywords returned keywords.
C11_UnnormalRawListReturned ==
    \E w \in Uploads :
        /\ req[w].ek = "returned" /\ req[w].pc = "find_tags"
        /\ ~req[w].rawClean
        /\ req[w].kws # {}

\* C13: an upload whose extracted text is None or has fewer than 10
\* characters once stripped has returned 200 with an empty tag list and
\* method "none", raised nothing, stopped after the text extraction, wrote
\* nothing to the search index, and created no tag and no link.
C13_UnusableTextEndsWithoutTags ==
    \A w \in Uploads :
        (req[w].textRead /\ req[w].textLen < MinTextLength) =>
            /\ req[w].pc = "done" /\ req[w].status = 200
            /\ req[w].raised = "none"
            /\ req[w].method = "none" /\ req[w].outTags = {}
            /\ req[w].steps = SubSeq(UploadSteps, 1, 3)
            /\ req[w].doc \notin esIndex
            /\ ~req[w].created /\ ~req[w].linked /\ ~HasLink(req[w].doc)

\* C13 witness: an upload whose stripped text is one character short of the
\* minimum has returned.
C13_NineCharacterTextReturned ==
    \E w \in Uploads :
        /\ req[w].textRead /\ req[w].textLen = MinTextLength - 1
        /\ req[w].pc = "done"

\* C14: the step that takes in an upload with a content type outside
\* ALLOWED_MIME_TYPES ends that request with status 400 and changes no
\* store: no blob, no document row, no index entry, no tag, no link.
C14_BadMimeRejectedWithoutEffect ==
    [][ \A w \in Workers :
          ( /\ req'[w] # req[w]
            /\ req'[w].op = "upload"
            /\ req'[w].mime \notin ALLOWED_MIME_TYPES ) =>
              /\ req'[w].pc = "done" /\ req'[w].status = 400
              /\ req'[w].raised = "HTTPException"
              /\ req'[w].steps = <<>>
              /\ UNCHANGED <<blobs, documents, nextDocId, esIndex, tags,
                             nextTagId, links>> ]_vars

\* C14 witness: an upload with an unsupported content type was answered.
C14_BadMimeAnswered ==
    \E w \in Uploads :
        /\ req[w].mime \notin ALLOWED_MIME_TYPES
        /\ req[w].pc = "done"

\* C15: an upload whose blob put failed has ended with an error, and that
\* request stored no blob, wrote no Document row, made no index entry and
\* created no tag and no link.
C15_BlobFailurePersistsNothing ==
    \A w \in Uploads :
        req[w].blobPutFailed =>
            /\ req[w].pc = "done" /\ req[w].status >= 400
            /\ req[w].raised # "none"
            /\ req[w].steps = <<"put_blob">>
            /\ req[w].key \notin blobs
            /\ ~req[w].rowPersisted /\ req[w].doc = 0
            /\ ~req[w].created /\ ~req[w].linked

\* C15 witness: an upload's blob put failed.
C15_BlobPutFailed ==
    \E w \in Uploads : req[w].blobPutFailed /\ req[w].pc = "done"

\* C16: the steps an upload has performed are an initial part of: blob put,
\* row write, text extraction, index upsert, keyword extraction, tag
\* attachment; and a step is in the list only when the step before it has
\* finished its work.
C16_StepsInOrder ==
    \A w \in Uploads :
        LET n == Len(req[w].steps)
        IN  /\ n <= Len(UploadSteps)
            /\ req[w].steps = SubSeq(UploadSteps, 1, n)
            /\ n >= 2 => ~req[w].blobPutFailed
            /\ n >= 3 => req[w].rowPersisted
            /\ n >= 4 => req[w].textRead /\ req[w].textLen >= MinTextLength
            /\ n >= 5 => (req[w].indexFailed \/ req[w].doc \in esIndex)
            /\ n >= 6 => req[w].ek = "returned" /\ ~req[w].emptyKw

\* C16 witness: an upload has run all six steps and returned.
C16_AllStepsRun ==
    \E w \in Uploads :
        /\ req[w].steps = UploadSteps
        /\ req[w].pc = "done" /\ req[w].status = 200

\* C17: when extract_keywords has returned an empty list, the upload has
\* returned 200 with an empty tag list, created no tag and no link, and the
\* method it reports is the tag of the strategy selected by the count and
\* the threshold, not "none".
C17_EmptyKeywordsKeepMethod ==
    \A w \in Uploads :
        req[w].emptyKw =>
            /\ req[w].pc = "done" /\ req[w].status = 200
            /\ req[w].outTags = {}
            /\ ~req[w].created /\ ~req[w].linked /\ ~HasLink(req[w].doc)
            /\ req[w].method = req[w].ran
            /\ req[w].method =
                  IF req[w].count < threshold THEN "keybert" ELSE "elasticsearch"

\* C17 witness: extract_keywords returned an empty list under each strategy.
C17_EmptyUnderBothStrategies ==
    \E v, w \in Uploads :
        /\ req[v].emptyKw /\ req[v].ran = "keybert"
        /\ req[w].emptyKw /\ req[w].ran = "elasticsearch"

\* C18 (as claimed): an upload of a supported type whose stripped text has
\* at least 10 characters and which read a count below the threshold ends
\* with status 200 and the method "keybert", with at most KeywordCount
\* tags, all of them normalized.
C18_ColdStartNeverFails ==
    \A w \in Uploads :
        ( /\ req[w].pc = "done"
          /\ req[w].mime \in ALLOWED_MIME_TYPES
          /\ req[w].textRead /\ req[w].textLen >= MinTextLength
          /\ Len(req[w].steps) >= 5
          /\ req[w].count < threshold ) =>
            /\ req[w].status = 200
            /\ req[w].method = "keybert"
            /\ Cardinality(req[w].outTags) <= KeywordCount
            /\ \A t \in req[w].outTags : IsNormalKeyword(t.name)

\* v's call had returned when w's call began.
Before(v, w) == v # w /\ req[v].pc = "done" /\ req[w].solo /\ req[w].seq > req[v].seq

\* C12: when a get_or_create_tags call has returned its tags and a second
\* call with the same name set is made after it, the second call returns
\* tags with the same ids and inserts no row into the tag table.
C12_BulkGetOrCreateIdempotent ==
    \A v, w \in Workers :
        ( /\ req[v].op = "tags" /\ req[w].op = "tags"
          /\ Before(v, w)
          /\ req[v].status = 200
          /\ req[w].pc = "done"
          /\ NormalizeSet(req[v].names) = NormalizeSet(req[w].names) ) =>
            /\ req[w].status = 200
            /\ { t.tag_id : t \in req[w].outTags } = { t.tag_id : t \in req[v].outTags }
            /\ ~req[w].created

\* C12 witness: a second call with the same, non-empty name set has returned
\* after a first call that created the rows.
C12_SecondCallReturned ==
    \E v, w \in Workers :
        /\ req[v].op = "tags" /\ req[w].op = "tags"
        /\ Before(v, w)
        /\ req[v].status = 200 /\ req[v].created
        /\ req[w].pc = "done"
        /\ NormalizeSet(req[v].names) = NormalizeSet(req[w].names)

\* C19: when attach_tags_to_document has returned for a document and
\* get_tags_by_document_id is called for it afterwards, then for every
\* keyword that was attached the tags returned include one whose name is
\* the keyword stripped and lower-cased.
C19_AttachedKeywordReadBack ==
    \A v, w \in Workers :
        ( /\ req[v].op = "attach" /\ req[w].op = "get_tags"
          /\ Before(v, w)
          /\ req[v].status = 200
          /\ req[w].pc = "done"
          /\ req[w].doc = req[v].doc ) =>
            \A k \in req[v].names :
                Strip(k) # <<>> =>
                    \E t \in req[w].outTags : t.name = Lower(Strip(k))

\* C19 witness: a keyword with upper case and padding was attached and the
\* document's tags were read afterwards.
C19_PaddedKeywordReadBack ==
    \E v, w \in Workers :
        /\ req[v].op = "attach" /\ req[w].op = "get_tags"
        /\ Before(v, w)
        /\ req[v].status = 200
        /\ req[w].pc = "done"
        /\ req[w].doc = req[v].doc
        /\ <<" ", "A", "b", " ">> \in req[v].names

\* C20 (as claimed): when attach_tags_to_document has returned for a
\* document and is called again afterwards with the same document and the
\* same names, the second call succeeds too, returns the same tags, and
\* document_tags holds each link once.
C20_AttachTwiceSucceeds ==
    \A v, w \in Workers :
        ( /\ req[v].op = "attach" /\ req[w].op = "attach"
          /\ Before(v, w)
          /\ req[v].status = 200
          /\ req[w].pc = "done"
          /\ req[w].doc = req[v].doc
          /\ req[w].names = req[v].names ) =>
            /\ req[w].status = 200
            /\ req[w].outTags = req[v].outTags
            /\ \A p \in DOMAIN links : links[p] = 1

\* C21: document_tags never holds two rows for one (document id, tag id)
\* pair, whatever attach calls have run.
C21_OneLinkPerPair ==
    \A p \in DOMAIN links : links[p] = 1

\* C21 witness: a document was given a tag, and a later attach of the same
\* names to the same document was refused.
C21_SecondLinkRefused ==
    \E v, w \in Workers :
        /\ req[v].op = "attach" /\ req[w].op = "attach"
        /\ Before(v, w)
        /\ req[v].status = 200 /\ req[v].linked
        /\ req[w].doc = req[v].doc /\ req[w].names = req[v].names
        /\ req[w].raised = "IntegrityError"
        /\ HasLink(req[v].doc)

\* C22: a delete_document call on a found document that is not in the
\* search index fails only when the blob delete or the row delete failed;
\* otherwise it returns success with the blob and the Document row gone.
C22_DeleteOfUnindexedSucceeds ==
    \A w \in Deletes :
        ( /\ req[w].pc = "done"
          /\ req[w].status # 404
          /\ req[w].doc \notin esIndex ) =>
            \/ req[w].blobDeleteFailed
            \/ req[w].rowDeleteTried /\ req[w].status = 500
            \/ /\ req[w].status = 200 /\ req[w].raised = "none"
               /\ req[w].key \notin blobs
               /\ ~DocExists(req[w].doc)

\* C22 witness: an upload ended without its document in the search index,
\* and a delete of that document has returned success.
C22_UnindexedDocumentDeleted ==
    \E v \in Uploads, w \in Deletes :
        /\ req[v].pc = "done" /\ req[v].status = 200
        /\ req[v].doc \notin esIndex
        /\ req[w].doc = req[v].doc
        /\ req[w].pc = "done" /\ req[w].status = 200

\* C23: a delete_document call has tried the row delete only after its blob
\* delete was done, and a Document row leaves the table only in a step of a
\* delete call whose blob delete was done before that step.
C23_BlobDeleteBeforeRowDelete ==
    /\ [](\A w \in Deletes : req[w].rowDeleteTried => req[w].blobDeleted)
    /\ [][ \A row \in documents :
             row \notin documents' =>
                \E w \in Deletes :
                    /\ req[w].doc = row.document_id
                    /\ req[w].blobDeleted
                    /\ req'[w].rowDeleteTried ]_vars

\* C23 witness: a delete call has removed the row.
C23_RowDeleted ==
    \E w \in Deletes :
        /\ req[w].pc = "done" /\ req[w].status = 200
        /\ req[w].rowDeleteTried
        /\ ~DocExists(req[w].doc)

C25_CountReadOnEveryCall ==
    [][ \A w \in Workers :
          /\ ( req[w].op = "upload" /\ req[w].pc = "count"
               /\ req'[w].pc = "extract" ) =>
                 \/ req'[w].count = Cardinality(esIndex)
                 \/ req'[w].countFailed /\ req'[w].count = 0
          /\ ( req[w].op = "upload" /\ req[w].pc = "extract"
               /\ req'[w].pc # "extract" ) =>
                 /\ req'[w].count = req[w].count
                 /\ req'[w].ran = IF req[w].count < threshold
                                  THEN "keybert" ELSE "elasticsearch" ]_vars

\* C25 witness: one call counted 0 documents and ran KeyBERT, and a call
\* that counted the document indexed since ran Elasticsearch.
C25_LaterCallCountsAgain ==
    \E v, w \in Uploads :
        /\ req[v].ek = "returned" /\ req[v].ran = "keybert" /\ req[v].count = 0
        /\ req[v].doc \in esIndex
        /\ req[w].ek = "returned" /\ req[w].ran = "elasticsearch"
        /\ req[w].count = 1

\* C28: in the step in which upload_document returns after linking tags,
\* the tags it returns are the tags document_tags joins to the new document
\* at that moment, there is one of them for each normalized keyword and no
\* other, and the method returned is that of the extractor that ran.
C28_ReturnedTagsAreLinkedTags ==
    [][ \A w \in Workers :
          ( /\ req[w].op = "upload" /\ req[w].pc # "done"
            /\ req'[w].pc = "done" /\ req'[w].status = 200
            /\ req'[w].linked ) =>
              /\ req'[w].outTags =
                    { t \in tags' : BagIn(<<req'[w].doc, t.tag_id>>, links') }
              /\ { t.name : t \in req'[w].outTags } = req[w].kws
              /\ Cardinality(req'[w].outTags) = Cardinality(req[w].kws)
              /\ \A k \in req[w].kws : IsNormalKeyword(k)
              /\ req'[w].method = req'[w].ran
              /\ req'[w].method \in {"keybert", "elasticsearch"} ]_vars

\* C28 witness: an upload has returned two tags, both linked to its
\* document.
C28_TwoTagsReturned ==
    \E w \in Uploads :
        /\ req[w].pc = "done" /\ req[w].status = 200 /\ req[w].linked
        /\ Cardinality(req[w].outTags) = 2
        /\ \A t \in req[w].outTags : BagIn(<<req[w].doc, t.tag_id>>, links)

\* The sessions of id s that create_session has made and that were neither
\* deleted nor expired since.
LiveSessions(s) == { m \in sessionsMade : m.sid = s /\ ~m.ended }

\* C26: a get_session(s) call returns data with user id u exactly when an
\* earlier create_session(u) returned s and s has not been deleted or
\* expired since, and None otherwise; a delete_session(s) call returns True
\* exactly when s was such a session when it was called.
C26_SessionLifecycle ==
    [][ \A w \in Workers :
          /\ ( areq'[w] # areq[w] /\ areq'[w].op = "get_session" ) =>
                IF LiveSessions(areq'[w].sid) = {}
                THEN areq'[w].result = "None"
                ELSE /\ areq'[w].result = "data"
                     /\ \E m \in LiveSessions(areq'[w].sid) :
                           areq'[w].user_id = m.user_id
          /\ ( areq'[w] # areq[w] /\ areq'[w].op = "delete_session" ) =>
                /\ areq'[w].result =
                      IF LiveSessions(areq'[w].sid) # {} THEN "True" ELSE "False"
                /\ areq'[w].sid \notin DOMAIN sessions' ]_vars

\* C26 witness: a session was made, delete_session returned True for it, and
\* a later get_session of the same id returned None.
C26_DeletedSessionNotFound ==
    \E v, w \in Workers :
        /\ areq[v].op = "delete_session" /\ areq[v].result = "True"
        /\ areq[w].op = "get_session" /\ areq[w].sid = areq[v].sid
        /\ areq[w].seq > areq[v].seq
        /\ areq[w].result = "None"
        /\ \E m \in sessionsMade : m.sid = areq[v].sid /\ m.ended

\* C27: no extract_text_from_bytes call raises; a call with a MIME type the
\* extractor does not know returns None, and so does a call whose format
\* routine met an error (its library missing, or a file it cannot parse);
\* a text/plain file always yields a text.
C27_ExtractTextNeverRaises ==
    \A w \in Workers :
        (req[w].op = "extract_text" /\ req[w].pc = "done") =>
            LET known == req[w].mime \in (ALLOWED_MIME_TYPES \cup HWP_MIME_TYPES)
                garbled == \E i \in 1..Len(req[w].bytes) : req[w].bytes[i] = "#"
            IN  /\ req[w].raised = "none"
                /\ ~known => req[w].out = None
                /\ ( /\ known /\ req[w].mime # "text/plain"
                     /\ (~req[w].installed \/ ~req[w].wellFormed \/ garbled) ) =>
                      req[w].out = None
                /\ req[w].mime = "text/plain" => req[w].out # None

\* C27 witness: one call was given a PNG and returned None, and another was
\* given a PDF that does not parse and returned None as well.
C27_UnsupportedAndBrokenReturnNone ==
    \E v, w \in Workers :
        /\ req[v].op = "extract_text" /\ req[v].pc = "done"
        /\ req[v].mime = "image/png" /\ req[v].out = None
        /\ req[w].op = "extract_text" /\ req[w].pc = "done"
        /\ req[w].mime = "application/pdf"
        /\ req[w].installed /\ ~req[w].wellFormed
        /\ req[w].out = None /\ req[w].raised = "none"

\* The place of a term in the term vector of the call, 0 when it has none.
TermIndex(r, term) ==
    IF \E i \in 1..Len(r.terms) : r.terms[i].term = term
    THEN CHOOSE i \in 1..Len(r.terms) : r.terms[i].term = term
    ELSE 0

\* Term i of the call's document goes before term j in the ranking: its
\* score is higher, or the scores are equal and it comes first in the
\* term vector.
RanksBefore(r, i, j) ==
    \/ Score(r.terms[i], r.total) > Score(r.terms[j], r.total)
    \/ Score(r.terms[i], r.total) = Score(r.terms[j], r.total) /\ i < j

\* The terms of the call's document that are 2 to 30 characters long.
EligibleIndexes(r) ==
    { i \in 1..Len(r.terms) : 2 <= Len(r.terms[i].term) /\ Len(r.terms[i].term) <= 30 }

\* C30: a call that got its answers from Elasticsearch returns
\* min(size, number of eligible terms) distinct terms of the document, each
\* 2 to 30 characters long, in descending tf * (ln((N+1)/(df+1)) + 1) order
\* with equal scores in term-vector order, and no eligible term left out
\* ranks before a returned one; every call returns at most `size` terms, and
\* two calls on the same index state return the same list.
C30_TopTermsByScore ==
    /\ \A w \in Workers :
         (req[w].op = "significant_terms" /\ req[w].pc = "done") =>
            LET r == req[w]
                out == r.keywords
                at(k) == TermIndex(r, out[k])
            IN  /\ Len(out) <= r.size
                /\ ~r.esFailed =>
                     /\ \A k \in 1..Len(out) : at(k) \in EligibleIndexes(r)
                     /\ \A k \in 1..Len(out) :
                           2 <= Len(out[k]) /\ Len(out[k]) <= 30
                     /\ Len(out) = IF Cardinality(EligibleIndexes(r)) < r.size
                                   THEN Cardinality(EligibleIndexes(r))
                                   ELSE r.size
                     /\ \A k, l \in 1..Len(out) :
                           k < l => RanksBefore(r, at(k), at(l))
                     /\ \A i \in EligibleIndexes(r) :
                           (\A k \in 1..Len(out) : at(k) # i) =>
                              \A k \in 1..Len(out) : RanksBefore(r, at(k), i)
    /\ \A v, w \in Workers :
         ( /\ req[v].op = "significant_terms" /\ req[v].pc = "done"
           /\ req[w].op = "significant_terms" /\ req[w].pc = "done"
           /\ ~req[v].esFailed /\ ~req[w].esFailed ) =>
              req[v].keywords = req[w].keywords

\* C30 witness: a document of three eligible terms, the last with the
\* highest score and the first two tied, was asked for two terms; the call
\* returned the last term and then the first, and left the second out.
C30_TieKeptInTermOrder ==
    \E w \in Workers :
        LET r == req[w]
        IN  /\ r.op = "significant_terms" /\ r.pc = "done" /\ ~r.esFailed
            /\ Len(r.terms) = 3 /\ r.size = 2
            /\ EligibleIndexes(r) = {1, 2, 3}
            /\ Score(r.terms[1], r.total) = Score(r.terms[2], r.total)
            /\ Score(r.terms[3], r.total) > Score(r.terms[1], r.total)
            /\ r.keywords = << r.terms[3].term, r.terms[1].term >>

\* The terminal outcomes of an upload_document call: it raised to its
\* caller; it returned the document with the tags linked to it; it returned
\* the stored document with no tags.
UploadFailed(r) == r.raised # "none" /\ r.status # 200
UploadComplete(r) ==
    r.raised = "none" /\ r.status = 200 /\ r.linked /\ r.outTags # {}
UploadDegraded(r) ==
    r.raised = "none" /\ r.status = 200 /\ r.rowPersisted /\ ~r.linked /\ r.outTags = {}

\* C29: every upload_document call that has begun ends, whatever the other
\* worker uploads or deletes meanwhile; when it has ended it is in exactly
\* one of Failed, Complete and Degraded, and its record changes only when
\* the worker begins another request.
C29_UploadReachesOneOutcome ==
    /\ \A w \in Workers :
         (req[w].op = "upload" /\ req[w].pc # "done")
            ~> (req[w].op = "upload" /\ req[w].pc = "done")
    /\ [](\A w \in Workers :
            (req[w].op = "upload" /\ req[w].pc = "done") =>
               /\ UploadFailed(req[w]) \/ UploadComplete(req[w]) \/ UploadDegraded(req[w])
               /\ ~(UploadFailed(req[w]) /\ UploadComplete(req[w]))
               /\ ~(UploadFailed(req[w]) /\ UploadDegraded(req[w]))
               /\ ~(UploadComplete(req[w]) /\ UploadDegraded(req[w])))
    /\ [][ \A w \in Workers :
             (req[w].op = "upload" /\ req[w].pc = "done" /\ req'[w] # req[w]) =>
                req'[w].op = "delete" \/ req'[w].steps = <<>> ]_vars

\* C29 witness: two uploads were made; one has ended Complete and the
\* other Degraded.
C29_TwoUploadsEnded ==
    \E v, w \in Uploads :
        /\ v # w
        /\ req[v].pc = "done" /\ UploadComplete(req[v])
        /\ req[w].pc = "done" /\ UploadDegraded(req[w])

\* C31 (as claimed): once delete_document has returned success for a
\* document, the search index holds no entry for it, so the document count
\* read for strategy selection does not include it.
C31_DeletedDocumentLeavesIndex ==
    \A w \in Deletes :
        (req[w].pc = "done" /\ req[w].status = 200) => req[w].doc \notin esIndex

\* C32: a delete_document call is answered 404 exactly when no Document row
\* has both the id and the caller's user id, and the step that answers so
\* changes no blob, row, link, tag or index entry; a call answered 404 has
\* tried neither delete.
C32_MissingOrForeignDocumentNotFound ==
    /\ [][ \A w \in Workers :
             ( /\ req[w].pc \in {"idle", "done"}
               /\ req'[w] # req[w] /\ req'[w].op = "delete" ) =>
                 IF \E row \in documents :
                        row.document_id = req'[w].doc /\ row.user_id = req'[w].user
                 THEN req'[w].pc = "delete_blob"
                 ELSE /\ req'[w].pc = "done" /\ req'[w].status = 404
                      /\ req'[w].raised = "HTTPException"
                      /\ blobs' = blobs /\ documents' = documents
                      /\ links' = links /\ tags' = tags /\ esIndex' = esIndex ]_vars
    /\ [](\A w \in Deletes :
            req[w].status = 404 =>
               /\ ~req[w].blobDeleted /\ ~req[w].rowDeleteTried
               /\ ~req[w].blobDeleteFailed)

\* C32 witness: user 2 asked to delete a document of user 1 and was
\* answered 404; the row and its blob are still there.
C32_ForeignDeleteRefused ==
    \E w \in Deletes :
        /\ req[w].pc = "done" /\ req[w].status = 404
        /\ DocExists(req[w].doc)
        /\ DocRow(req[w].doc).user_id # req[w].user
        /\ DocRow(req[w].doc).storage_path \in blobs

\* C33 (as claimed): a kakao_callback request that finds a stored
\* code-to-session mapping at its first step is redirected with the mapped
\* session id in its cookie, and has redeemed no code and made no user and
\* no session of its own.
C33_MappedCodeReturnsMappedSession ==
    \A w \in Workers :
        (areq[w].op = "callback" /\ areq[w].pc = "done" /\ ~areq[w].passed) =>
            /\ areq[w].status = 307 /\ areq[w].raised = "none"
            /\ areq[w].code \in DOMAIN codeSession =>
                  areq[w].cookie = codeSession[areq[w].code]
            /\ areq[w].sid = 0 /\ areq[w].user_id = 0

\* C34: a kakao_callback request that saw the processing marker and finds no
\* mapping for its code after the wait is answered 409 in a step that
\* creates no user and no session and redeems no code; a request answered
\* 409 holds no user and no session of its own.
C34_StillUnmappedAfterWaitConflicts ==
    /\ [][ \A w \in Workers :
             ( /\ areq[w].op = "callback" /\ areq[w].pc = "wait"
               /\ areq'[w] # areq[w]
               /\ areq[w].code \notin DOMAIN codeSession ) =>
                 /\ areq'[w].pc = "done" /\ areq'[w].status = 409
                 /\ areq'[w].raised = "HTTPException"
                 /\ users' = users /\ sessions' = sessions
                 /\ sessionsMade' = sessionsMade
                 /\ kakaoRedeemed' = kakaoRedeemed ]_vars
    /\ [](\A w \in Workers :
            (areq[w].op = "callback" /\ areq[w].status = 409) =>
               /\ areq[w].sawLock
               /\ areq[w].sid = 0 /\ areq[w].user_id = 0 /\ areq[w].cookie = 0)

\* C34 witness: a request that saw the marker was answered 409 while the
\* request holding the marker had saved no mapping.
C34_ConflictAnswered ==
    \E w \in Workers :
        /\ areq[w].op = "callback" /\ areq[w].pc = "done"
        /\ areq[w].sawLock /\ areq[w].status = 409
        /\ areq[w].code \notin DOMAIN codeSession

\* C39: the users table never holds two rows with one kakao_id.
C39_OneUserPerKakaoId ==
    \A u1, u2 \in users : u1.kakao_id = u2.kakao_id => u1 = u2

\* C39 witness: a kakao_callback and a test_login for the same kakao_id both
\* found no user; one inserted the row and the other's insert was refused.
C39_SecondInsertRefused ==
    \E v, w \in Workers :
        /\ areq[v].op = "callback" /\ areq[w].op = "test_login"
        /\ areq[v].kakao_id = areq[w].kakao_id
        /\ \E a, b \in {v, w} :
              /\ a # b
              /\ areq[a].raised = "IntegrityError"
              /\ areq[b].user_id # 0
              /\ \E u \in users : u.user_id = areq[b].user_id
                                  /\ u.kakao_id = areq[a].kakao_id

\* C35: a request passes get_current_session_data exactly when it carries a
\* session_id cookie naming a session that was made and has not been
\* deleted or expired, and is answered 401 otherwise; the logout step
\* leaves no session under the id it was given, so every later request
\* carrying that id is answered 401.
C35_AuthenticatedOnlyWithStoredSession ==
    /\ [][ \A w \in Workers :
             /\ ( areq'[w] # areq[w] /\ areq'[w].op = "authenticate" ) =>
                   IF areq'[w].sid # 0 /\ LiveSessions(areq'[w].sid) # {}
                   THEN /\ areq'[w].status = 200
                        /\ \E m \in LiveSessions(areq'[w].sid) :
                              areq'[w].user_id = m.user_id
                   ELSE /\ areq'[w].status = 401
                        /\ areq'[w].raised = "HTTPException"
             /\ ( areq'[w] # areq[w] /\ areq'[w].op = "logout" ) =>
                   /\ areq'[w].sid \notin DOMAIN sessions'
                   /\ \A s \in DOMAIN sessions : s # areq'[w].sid => s \in DOMAIN sessions' ]_vars
    /\ [](\A v, w \in Workers :
            ( /\ areq[v].op = "logout" /\ areq[v].result = "True"
              /\ areq[w].op = "authenticate" /\ areq[w].sid = areq[v].sid
              /\ areq[w].seq > areq[v].seq ) =>
                areq[w].status = 401)

\* C35 witness: a session was made, logout deleted it, and a later request
\* carrying its id was answered 401.
C35_RejectedAfterLogout ==
    \E v, w \in Workers :
        /\ areq[v].op = "logout" /\ areq[v].result = "True"
        /\ areq[w].op = "authenticate" /\ areq[w].sid = areq[v].sid
        /\ areq[w].seq > areq[v].seq
        /\ areq[w].status = 401
        /\ \E m \in sessionsMade : m.sid = areq[v].sid /\ m.ended

\* The names a call was given, stripped and lower-cased, the blank ones
\* left out.
NormalNames(r) == { Lower(Strip(k)) : k \in { x \in r.names : Strip(x) # <<>> } }

\* C36: an attach_tags_to_document call that returns has created links
\* from its document to exactly the tags named by the stripped, lower-cased,
\* non-blank names it was given, and returns those tags; with an empty name
\* collection it returns no tag and has created neither a tag nor a link; a
\* call that raises creates no link; every tag a call creates bears one of
\* its normalized names, so no tag ever has the empty name.
C36_AttachLinksNormalizedNames ==
    /\ [][ /\ \A w \in Workers :
                ( req'[w] # req[w] /\ req'[w].op = "attach" /\ req'[w].pc = "done" ) =>
                    IF req'[w].status = 200
                    THEN /\ req'[w].outTags \subseteq tags'
                         /\ { t.name : t \in req'[w].outTags } = NormalNames(req'[w])
                         /\ Cardinality(req'[w].outTags) = Cardinality(NormalNames(req'[w]))
                         /\ DOMAIN links' \ DOMAIN links =
                               { <<req'[w].doc, t.tag_id>> : t \in req'[w].outTags }
                         /\ \A p \in DOMAIN links' :
                               links'[p] = IF p \in DOMAIN links THEN links[p] ELSE 1
                         /\ req'[w].names = {} =>
                               ~req'[w].created /\ tags' = tags /\ links' = links
                    ELSE links' = links
           /\ \A t \in tags' \ tags :
                \E w \in Workers : t.name \in NormalNames(req[w]) ]_vars
    /\ [](\A t \in tags : t.name # <<>>)

\* C36 witness: one call attached a blank name together with a padded,
\* upper-case one and returned one tag, linked to the document; another
\* call was given no names and returned none.
C36_BlankSkippedAndEmptyReturned ==
    \E v, w \in Workers :
        /\ req[v].op = "attach" /\ req[v].pc = "done" /\ req[v].status = 200
        /\ req[v].names = { <<" ">>, <<" ", "A", "b", " ">> }
        /\ \E t \in req[v].outTags :
              /\ req[v].outTags = {t}
              /\ t.name = <<"a", "b">>
              /\ DOMAIN links = { <<req[v].doc, t.tag_id>> }
        /\ req[w].op = "attach" /\ req[w].pc = "done" /\ req[w].status = 200
        /\ req[w].names = {} /\ req[w].outTags = {}

\* C37: a get_or_create_tags call that returns has asked the repository for
\* the stripped, lower-cased, non-blank forms of its names, each once, and
\* returns one Tag of the table for each of them and no other: names that
\* differ only in letter case or surrounding blanks come back as one Tag.
C37_OneTagPerNormalizedName ==
  /\ [][ \A w \in Workers :
          ( req[w].op = "tags" /\ req[w].pc = "find_tags" /\ req'[w] # req[w] ) =>
              req'[w].kws = NormalNames(req[w]) ]_vars
  /\ [](\A w \in Workers :
        ( req[w].op = "tags" /\ req[w].pc = "done" /\ req[w].status = 200 ) =>
            /\ { t.name : t \in req[w].outTags } = NormalNames(req[w])
            /\ \A s, t \in req[w].outTags : s.name = t.name => s = t
            /\ \A j, k \in req[w].names :
                  ( Strip(j) # <<>> /\ Lower(Strip(j)) = Lower(Strip(k)) ) =>
                      \E t \in req[w].outTags :
                          /\ t.name = Lower(Strip(j))
                          /\ \A u \in req[w].outTags :
                                u.name \in { Lower(Strip(j)), Lower(Strip(k)) } => u = t
            /\ req[w].outTags \subseteq tags)

\* C37 witness: a call given "ab" and " Ab " returned one Tag, named "ab".
C37_CaseAndPaddingShareOneTag ==
    \E w \in Workers :
        /\ req[w].op = "tags" /\ req[w].pc = "done" /\ req[w].status = 200
        /\ req[w].names = { <<"a", "b">>, <<" ", "A", "b", " ">> }
        /\ Cardinality(req[w].outTags) = 1
        /\ \E t \in req[w].outTags : t.name = <<"a", "b">>

\* C38: the step that inserts the new tags of one bulk_get_or_create call
\* either adds one row for every new name of the call, or raises
\* IntegrityError and adds no row at all and no link, ending the call; an
\* upload that ended this way has no link for its document.
C38_NewTagsAllOrNothing ==
    /\ [][ \A w \in Workers :
             ( req[w].pc = "create_tags" /\ req'[w] # req[w] ) =>
                 LET new == req[w].kws \ { t.name : t \in req[w].found }
                 IN  \/ /\ req'[w].raised = "none"
                        /\ { t.name : t \in tags' \ tags } = new
                        /\ Cardinality(tags' \ tags) = Cardinality(new)
                        /\ tags \subseteq tags'
                     \/ /\ req'[w].raised = "IntegrityError"
                        /\ req'[w].pc = "done"
                        /\ tags' = tags
                        /\ links' = links ]_vars
    /\ [](\A w \in Workers :
            ( req[w].op = "upload" /\ req[w].pc = "done"
              /\ req[w].raised = "IntegrityError" ) =>
                ~HasLink(req[w].doc))

\* C38 witness: two uploads raced for a new tag name; one returned its tag,
\* the other's insert was refused, and its document, still stored, has no
\* link while the table holds only the first upload's tag.
C38_InsertRefusedNothingKept ==
    \E v, w \in Workers :
        /\ req[v].op = "upload" /\ req[v].pc = "done" /\ req[v].status = 200
        /\ req[v].outTags = tags /\ Cardinality(tags) = 1
        /\ req[w].op = "upload" /\ req[w].pc = "done"
        /\ req[w].raised = "IntegrityError"
        /\ DocExists(req[w].doc)
        /\ ~HasLink(req[w].doc)

\* C40: get_document_by_id(d, u) returns the row of document d when it is
\* stored with owner u and nothing otherwise, and get_user_documents(u)
\* returns the stored rows whose owner is u and no other; a row enters the
\* table under a new id with the uploading request's user as owner, and no
\* step changes the owner of a stored document, so the owner of a row is
\* the one recorded when it was created.
C40_OwnerIsolation ==
    [][ /\ \A w \in Workers :
             ( req'[w] # req[w] /\ req'[w].op \in {"get_document", "get_documents"} ) =>
                 /\ req'[w].outDocs \subseteq documents
                 /\ \A row \in req'[w].outDocs : row.user_id = req'[w].user
                 /\ \A row \in documents :
                       ( /\ row.user_id = req'[w].user
                         /\ req'[w].op = "get_document" => row.document_id = req'[w].doc )
                           => row \in req'[w].outDocs
                 /\ req'[w].op = "get_document" =>
                       \A row \in req'[w].outDocs : row.document_id = req'[w].doc
                 /\ documents' = documents
        /\ \A row \in documents' :
              \/ \E old \in documents :
                    /\ old.document_id = row.document_id
                    /\ old.user_id = row.user_id
              \/ /\ row.document_id >= nextDocId
                 /\ nextDocId' > row.document_id
                 /\ \E w \in Workers :
                       req[w].op = "upload" /\ row.user_id = req[w].user ]_vars

\* C40 witness: with a document of each user stored, user 1 asked for
\* user 2's document and got nothing, and user 2's listing returned that
\* document alone.
C40_ForeignDocumentHidden ==
    \E v, w \in Workers :
        /\ req[v].op = "get_document" /\ req[v].pc = "done"
        /\ req[v].user = 1 /\ req[v].doc = 1 /\ req[v].outDocs = {}
        /\ req[w].op = "get_documents" /\ req[w].pc = "done"
        /\ req[w].user = 2
        /\ req[w].outDocs = { [document_id |-> 1, user_id |-> 2, storage_path |-> 1] }
        /\ \E row \in documents : row.user_id = 1
        /\ \E row \in documents : row.document_id = 1 /\ row.user_id = 2

====
